---- MODULE Spec2Model ----
(***************************************************************************)
(* Retrieval and context assembly of the Drive assistant:                  *)
(* GoogleDriveUtils.search_files / get_file_content / get_relevant_context *)
(* in both shipped variants (src/utils/drive_utils.py, which the           *)
(* orchestrator imports, and src/agent/drive_utils.py), together with the  *)
(* FileProcessor helpers they call, and IntelligentOrchestrator            *)
(* .process_query with ChatGPTAgent.generate_response                      *)
(* (src/agent/orchestrator.py, src/agent/chat_agent.py).                   *)
(*                                                                         *)
(* Specifications: Spec and LongSpec (get_relevant_context step by step),  *)
(* LiveSpec (the same with the download loop chunk by chunk, under         *)
(* fairness), TextSpec, PdfSpec, SearchSpec and KeywordSpec (one function  *)
(* each), OrchSpec (sequences of process_query calls).                     *)
(*                                                                         *)
(* A Python str is a sequence of one-character strings; None is NoneVal.   *)
(***************************************************************************)
EXTENDS Integers, Sequences, FiniteSets, TLC

\* ------------------------------------------------------------------------
\* Characters and the character classes of Python's re module (ASCII part)
\* ------------------------------------------------------------------------
LowerSeq == <<"a","b","c","d","e","f","g","h","i","j","k","l","m","n","o","p","q","r","s","t","u","v","w","x","y","z">>
UpperSeq == <<"A","B","C","D","E","F","G","H","I","J","K","L","M","N","O","P","Q","R","S","T","U","V","W","X","Y","Z">>
DigitSeq == <<"0","1","2","3","4","5","6","7","8","9">>

Range(f) == {f[i] : i \in DOMAIN f}

LowerLetters == Range(LowerSeq)
UpperLetters == Range(UpperSeq)
Digits == Range(DigitSeq)

\* \w
WordChars == LowerLetters \cup UpperLetters \cup Digits \cup {"_"}
\* \s, and the characters str.strip() and str.split() take for whitespace
\* (ASCII part): space, \t, \n, \r, \f, the vertical tab \x0b and the
\* separators \x1c..\x1f
SpaceChars == {" ", "\t", "\n", "\r", "\f", "", "", "", "", ""}
\* ['"]
QuoteChars == {"'", "\""}

IsWord(c) == c \in WordChars
IsSpace(c) == c \in SpaceChars
IsNonSpace(c) == c \notin SpaceChars
IsLetter(c) == c \in LowerLetters \cup UpperLetters
\* [\w\s\-\.]
IsNameDotChar(c) == c \in WordChars \cup SpaceChars \cup {"-", "."}
\* [\w\s\-]
IsNameChar(c) == c \in WordChars \cup SpaceChars \cup {"-"}
\* [^"']
IsNonQuote(c) == c \notin QuoteChars
\* [\w\s-]  (the characters re.sub(r'[^\w\s-]', ' ', ...) keeps)
IsKeptChar(c) == c \in WordChars \cup SpaceChars \cup {"-"}
\* [a-z0-9]
IsLowerAlnum(c) == c \in LowerLetters \cup Digits

\* the printable ASCII characters in the order of their code points: from
\* the space (32) to the underscore (95), and from a (97) to the tilde (126)
AsciiLow == <<
    " ","!","\"","#","$","%","&","'","(",")","*","+",",","-",".","/",
    "0","1","2","3","4","5","6","7","8","9",":",";","<","=",">","?",
    "@","A","B","C","D","E","F","G","H","I","J","K","L","M","N","O",
    "P","Q","R","S","T","U","V","W","X","Y","Z","[","\\","]","^","_" >>
AsciiHigh == <<
    "a","b","c","d","e","f","g","h","i","j","k","l","m","n","o","p",
    "q","r","s","t","u","v","w","x","y","z","{","|","}","~" >>

\* the code points of the characters a string is written with
CodePoints ==
    [c \in Range(AsciiLow) \cup Range(AsciiHigh) \cup SpaceChars |->
        CASE c = "\t" -> 9
          [] c = "\n" -> 10
          [] c = "" -> 11
          [] c = "\f" -> 12
          [] c = "\r" -> 13
          [] c = "" -> 28
          [] c = "" -> 29
          [] c = "" -> 30
          [] c = "" -> 31
          [] c \in Range(AsciiLow) -> 31 + CHOOSE i \in DOMAIN AsciiLow : AsciiLow[i] = c
          [] OTHER -> 96 + CHOOSE i \in DOMAIN AsciiHigh : AsciiHigh[i] = c]

\* ord(c)
ord(c) == CodePoints[c]

\* a < b for the parts of two str from position i on, equal before it
RECURSIVE StrLessFrom(_, _, _)
StrLessFrom(a, b, i) ==
    IF i > Len(b) THEN FALSE
    ELSE IF i > Len(a) THEN TRUE
    ELSE IF a[i] = b[i] THEN StrLessFrom(a, b, i + 1)
    ELSE ord(a[i]) < ord(b[i])

\* a < b for two str: at the first position where they differ the
\* character of a has the smaller code point, or a is a proper prefix of b
StrLess(a, b) == StrLessFrom(a, b, 1)

\* None
NoneVal == <<"None">>

Min(S) == CHOOSE x \in S : \A y \in S : x <= y
Max(S) == CHOOSE x \in S : \A y \in S : x >= y

\* ------------------------------------------------------------------------
\* str methods
\* ------------------------------------------------------------------------
ToLowerChar(c) ==
    IF c \in UpperLetters
    THEN LowerSeq[CHOOSE i \in DOMAIN UpperSeq : UpperSeq[i] = c]
    ELSE c

\* s.lower()
lower(s) == [i \in 1..Len(s) |-> ToLowerChar(s[i])]

\* s.strip()
strip(s) ==
    LET keep == {i \in 1..Len(s) : ~IsSpace(s[i])}
    IN IF keep = {} THEN <<>>
       ELSE LET first == CHOOSE i \in keep : \A j \in 1..(i - 1) : IsSpace(s[j])
                last == CHOOSE i \in keep : \A j \in (i + 1)..Len(s) : IsSpace(s[j])
            IN SubSeq(s, first, last)

\* needle occurs in s at position i
OccursAt(s, needle, i) ==
    /\ i >= 1
    /\ i + Len(needle) - 1 <= Len(s)
    /\ \A k \in 1..Len(needle) : s[i + k - 1] = needle[k]

\* needle in s
Contains(s, needle) == \E i \in 1..(Len(s) + 1) : OccursAt(s, needle, i)

\* s.endswith(suffix)
endswith(s, suffix) ==
    /\ Len(suffix) <= Len(s)
    /\ OccursAt(s, suffix, Len(s) - Len(suffix) + 1)

\* s.replace(old, '') for a non-empty old: every non-overlapping occurrence,
\* scanning from the left
RECURSIVE RemoveAllFrom(_, _, _)
RemoveAllFrom(s, old, i) ==
    IF i > Len(s) THEN <<>>
    ELSE IF OccursAt(s, old, i) THEN RemoveAllFrom(s, old, i + Len(old))
    ELSE <<s[i]>> \o RemoveAllFrom(s, old, i + 1)

replace_empty(s, old) == RemoveAllFrom(s, old, 1)

\* sep.join(parts)
RECURSIVE join(_, _)
join(sep, parts) ==
    IF Len(parts) = 0 THEN <<>>
    ELSE IF Len(parts) = 1 THEN parts[1]
    ELSE parts[1] \o sep \o join(sep, Tail(parts))

\* The maximal runs of characters satisfying P, left to right
RunStarts(s, P(_)) ==
    {i \in 1..Len(s) : P(s[i]) /\ (i = 1 \/ ~P(s[i - 1]))}

\* the end of the run that holds position i
RunEnd(s, P(_), i) ==
    Min({j \in i..Len(s) : j = Len(s) \/ ~P(s[j + 1])})

Runs(s, P(_)) ==
    LET st == RunStarts(s, P)
        nth(k) == CHOOSE i \in st : Cardinality({x \in st : x < i}) = k - 1
    IN [k \in 1..Cardinality(st) |-> SubSeq(s, nth(k), RunEnd(s, P, nth(k)))]

\* re.findall(r'\w+', s)
findall_words(s) == Runs(s, IsWord)

\* s.split()
split(s) == Runs(s, IsNonSpace)

\* re.sub(r'[^a-z0-9]+', '', s)
strip_non_alnum(s) == join(<<>>, Runs(s, IsLowerAlnum))

\* [x for x in xs if keep(x)]
SelectSeqP(xs, keep(_)) ==
    LET idx == {i \in 1..Len(xs) : keep(xs[i])}
        nth(k) == CHOOSE i \in idx : Cardinality({x \in idx : x < i}) = k - 1
    IN [k \in 1..Cardinality(idx) |-> xs[nth(k)]]

\* xs[:n] for n >= 0
Take(xs, n) == SubSeq(xs, 1, IF n < Len(xs) THEN n ELSE Len(xs))

\* \b before position i of s (i in 1..Len(s)+1)
WordBoundary(s, i) ==
    LET before == i - 1 >= 1 /\ IsWord(s[i - 1])
        after == i <= Len(s) /\ IsWord(s[i])
    IN before # after

\* ------------------------------------------------------------------------
\* File-extension alternations of the filename patterns
\* ------------------------------------------------------------------------
\* (?:pdf|docx?|txt|csv), matched with re.IGNORECASE
AllExts == {<<"p","d","f">>, <<"d","o","c">>, <<"d","o","c","x">>, <<"t","x","t">>, <<"c","s","v">>}
\* pdf
PdfExt == {<<"p","d","f">>}
\* (?:pdf|docx?)
PdfDocExts == {<<"p","d","f">>, <<"d","o","c">>, <<"d","o","c","x">>}

\* positions e such that s[p..e] is one of exts, ignoring case
ExtEnds(s, p, exts) ==
    {e \in {p + 2, p + 3} : e <= Len(s) /\ lower(SubSeq(s, p, e)) \in exts}

\* a stable sort: the elements whose key comes Before another's come first,
\* elements of equal key stay in their original order.  The keys are computed
\* once per element.
SortedBy(xs, Key(_), Before(_, _)) ==
    LET keys == <<>> \o [i \in 1..Len(xs) |-> Key(xs[i])]
        pos(i) == Cardinality({j \in 1..Len(xs) : Before(keys[j], keys[i])})
                  + Cardinality({j \in 1..(i - 1) :
                        ~Before(keys[j], keys[i]) /\ ~Before(keys[i], keys[j])})
                  + 1
        order == <<>> \o [i \in 1..Len(xs) |-> pos(i)]
    IN [k \in 1..Len(xs) |-> xs[CHOOSE i \in 1..Len(xs) : order[i] = k]]
\* ------------------------------------------------------------------------
\* FileProcessor.extract_keywords  (src/utils/file_processing.py)
\* ------------------------------------------------------------------------
stop_words == {
    <<"a">>, <<"a","n">>, <<"a","n","d">>, <<"a","r","e">>, <<"a","s">>, <<"a","t">>, <<"b","e">>, <<"b","y">>, <<"f","o","r">>, <<"f","r","o","m">>,
    <<"h","a","s">>, <<"h","e">>, <<"i","n">>, <<"i","s">>, <<"i","t">>, <<"i","t","s">>, <<"o","f">>, <<"o","n">>, <<"t","h","a","t">>, <<"t","h","e">>,
    <<"t","o">>, <<"w","a","s">>, <<"w","i","l","l">>, <<"w","i","t","h">>, <<"t","h","e","y">>, <<"t","h","i","s">>, <<"t","h","e","s","e">>, <<"t","h","e","i","r">>,
    <<"t","h","e","r","e">>, <<"t","h","a","n">>, <<"t","h","e","m">>, <<"h","i","s">>, <<"h","e","r">>, <<"s","h","e">>, <<"o","r">>, <<"b","u","t">>, <<"i","f">>,
    <<"w","e">>, <<"y","o","u">>, <<"y","o","u","r">>, <<"i">>, <<"m","y">>, <<"m","e">>, <<"o","u","r">>, <<"u","s">>, <<"u","p">>, <<"o","u","t">>,
    <<"d","o","w","n">>, <<"c","a","n">>, <<"c","o","u","l","d">>, <<"w","o","u","l","d">>, <<"s","h","o","u","l","d">>, <<"h","a","v","e">>, <<"h","a","d">>, <<"d","o">>,
    <<"d","o","e","s">>, <<"d","i","d">>, <<"s","h","a","l","l">>, <<"m","a","y">>, <<"m","i","g","h","t">>,
    <<"m","u","s","t">>, <<"b","e","e","n">>, <<"b","e","i","n","g">>, <<"a","m">>, <<"w","e","r","e">>,
    <<"a","l","l">>, <<"a","n","y">>, <<"b","o","t","h">>, <<"e","a","c","h">>, <<"f","e","w">>, <<"m","o","r","e">>, <<"m","o","s","t">>, <<"o","t","h","e","r">>,
    <<"s","o","m","e">>, <<"s","u","c","h">>, <<"n","o">>, <<"n","o","r">>, <<"n","o","t">>, <<"o","n","l","y">>, <<"o","w","n">>, <<"s","a","m","e">>, <<"s","o">>,
    <<"a","l","s","o">>, <<"j","u","s","t">>, <<"n","o","w">>, <<"v","e","r","y">>, <<"t","o","o">>, <<"t","h","e","n">>, <<"h","e","r","e">>, <<"h","o","w">>, <<"w","h","e","r","e">>,
    <<"p","l","e","a","s","e">>, <<"c","o","n","t","e","n","t">>, <<"f","i","l","e">>, <<"d","o","c","u","m","e","n","t">>, <<"s","u","m","m","a","r","i","z","e">>, <<"s","u","m","m","a","r","y">> }

professional_keywords == {
    <<"e","x","p","e","r","i","e","n","c","e">>, <<"s","k","i","l","l">>, <<"e","d","u","c","a","t","i","o","n">>, <<"p","r","o","j","e","c","t">>, <<"w","o","r","k">>,
    <<"u","n","i","v","e","r","s","i","t","y">>, <<"d","e","g","r","e","e">>, <<"c","e","r","t","i","f","i","c","a","t","e">>, <<"t","r","a","i","n","i","n","g">>, <<"l","a","n","g","u","a","g","e">>,
    <<"s","o","f","t","w","a","r","e">>, <<"p","r","o","g","r","a","m","m","i","n","g">>, <<"m","a","n","a","g","e","m","e","n","t">>, <<"a","n","a","l","y","s","i","s">>, <<"r","e","s","e","a","r","c","h">>,
    <<"d","e","v","e","l","o","p","m","e","n","t">>, <<"d","e","s","i","g","n">>, <<"e","n","g","i","n","e","e","r","i","n","g">>, <<"m","a","r","k","e","t","i","n","g">>, <<"s","a","l","e","s">>,
    <<"c","v">>, <<"r","e","s","u","m","e">>, <<"h","a","r","m","a","s">>, <<"m","e","n","n","a">>, <<"p","d","f">>, <<"q","u","a","l","i","f","i","c","a","t","i","o","n">>,
    <<"i","n","t","e","r","n","s","h","i","p">>, <<"j","o","b">>, <<"c","a","r","e","e","r">>, <<"p","r","o","f","e","s","s","i","o","n","a","l">>, <<"t","e","c","h","n","i","c","a","l">> }

\* re.findall(r'\b[a-zA-Z]{2,}\b', s): the runs of two or more letters that
\* fill a whole \w+ run
LetterWords(s) ==
    SelectSeqP(findall_words(s),
               LAMBDA w : Len(w) >= 2 /\ \A i \in 1..Len(w) : IsLetter(w[i]))

\* re.findall(r'\b([A-Z][a-z]+)\b', s)
NamePatterns(s) ==
    SelectSeqP(findall_words(s),
               LAMBDA w : /\ Len(w) >= 2
                          /\ w[1] \in UpperLetters
                          /\ \A i \in 2..Len(w) : w[i] \in LowerLetters)

\* occurrences of w in ws
Count(ws, w) == Cardinality({i \in 1..Len(ws) : ws[i] = w})

\* index of the first occurrence of w in ws
FirstIndex(ws, w) == Min({i \in 1..Len(ws) : ws[i] = w})

\* Counter(ws).most_common(n): distinct words by decreasing count, words of
\* equal count in order of first occurrence
most_common(ws, n) ==
    LET distinct == Range(ws)
        before(a, b) ==
            \/ Count(ws, a) > Count(ws, b)
            \/ Count(ws, a) = Count(ws, b) /\ FirstIndex(ws, a) < FirstIndex(ws, b)
        rank(w) == Cardinality({v \in distinct : before(v, w)}) + 1
        ordered == [k \in 1..Cardinality(distinct) |->
                        CHOOSE w \in distinct : rank(w) = k]
    IN Take(ordered, n)

extract_keywordsByFrequencyOnly(text, max_keywords) ==
    IF text = NoneVal \/ text = <<>> THEN <<>>
    ELSE
    LET words == LetterWords(lower(text))
        filtered_words ==
            SelectSeqP(words, LAMBDA w : w \notin stop_words /\ Len(w) > 2)
    IN most_common(filtered_words, max_keywords)

extract_keywords(text, max_keywords) ==
    IF text = NoneVal \/ text = <<>> THEN <<>>
    ELSE
    LET words == LetterWords(lower(text))
        filtered_words ==
            SelectSeqP(words, LAMBDA w : w \notin stop_words /\ Len(w) > 2)
        top_words == most_common(filtered_words, max_keywords * 2)
        potential_names ==
            {lower(nm) : nm \in {x \in Range(NamePatterns(text)) : Len(x) > 2}}
        is_priority(w) ==
            \/ w \in professional_keywords
            \/ w \in potential_names
            \/ Len(w) > 6
            \/ endswith(w, <<"c","v">>)
            \/ OccursAt(w, <<"c","v">>, 1)
        priority_words == SelectSeqP(top_words, is_priority)
        regular_words == SelectSeqP(top_words, LAMBDA w : ~is_priority(w))
    IN Take(priority_words \o regular_words, max_keywords)

\* ------------------------------------------------------------------------
\* GoogleDriveUtils._calculate_filename_similarity (src/utils/drive_utils.py)
\* The quotient |intersection| / |union| is kept as the pair of its terms.
\* ------------------------------------------------------------------------
SimilarityFraction(filename1, filename2) ==
    LET words1 == Range(findall_words(lower(filename1)))
        words2 == Range(findall_words(lower(filename2)))
    IN IF words1 = {} \/ words2 = {}
       THEN [num |-> 0, den |-> 1]
       ELSE [num |-> Cardinality(words1 \cap words2),
             den |-> Cardinality(words1 \cup words2)]

\* a > b for two such quotients
FracGreater(a, b) == a.num * b.den > b.num * a.den

\* _calculate_filename_similarity(filename1, filename2) > 0.7
HighMatchThreshold == [num |-> 7, den |-> 10]

IsHighMatch(filename1, filename2) ==
    FracGreater(SimilarityFraction(filename1, filename2), HighMatchThreshold)

\* ------------------------------------------------------------------------
\* Filename extraction of get_relevant_context (src/utils/drive_utils.py)
\* Each operator gives the set of matches of one pattern as records
\* [start, g1, g2]: the match begins at start, and its group is
\* s[g1..g2].  re.findall(...)[0] is the group of the leftmost match; among
\* the matches at one start the greedy quantifiers select the longest run.
\* ------------------------------------------------------------------------
\* r'[\'"]([\w\s\-\.]+\.(?:pdf|docx?|txt|csv))[\'"]'
QuotedFilenameMatches(s) ==
    {[start |-> p[1], g1 |-> p[1] + 1, g2 |-> p[2]] :
        p \in {p \in (1..Len(s)) \X (1..Len(s)) :
            /\ s[p[1]] \in QuoteChars
            /\ p[2] + 1 <= Len(s)
            /\ s[p[2] + 1] \in QuoteChars
            /\ \E j \in (p[1] + 1)..(p[2] - 4) :
                  /\ s[j + 1] = "."
                  /\ p[2] \in ExtEnds(s, j + 2, AllExts)
                  /\ \A k \in (p[1] + 1)..j : IsNameDotChar(s[k])}}

\* r'\bfile\s+[\'"]([\w\s\-\.]+)[\'"]' and r'\bdocument\s+[\'"]([\w\s\-\.]+)[\'"]'
KeywordQuotedMatches(s, kw) ==
    {[start |-> t[1], g1 |-> t[2], g2 |-> t[3]] :
        t \in {t \in {i \in 1..Len(s) : WordBoundary(s, i) /\ OccursAt(lower(s), kw, i)}
                     \X {i \in 2..Len(s) : s[i - 1] \in QuoteChars}
                     \X {i \in 1..(Len(s) - 1) : s[i + 1] \in QuoteChars} :
            /\ t[2] >= t[1] + Len(kw) + 2
            /\ \A k \in (t[1] + Len(kw))..(t[2] - 2) : IsSpace(s[k])
            /\ t[3] >= t[2]
            /\ \A k \in t[2]..t[3] : IsNameDotChar(s[k])}}

\* r'\b([\w\s\-]*needle[\w\s\-]*\.(?:exts))\b'; with an empty needle and
\* minRun = 1 this is r'\b([\w\s\-]+\.(?:exts))\b'
BareFilenameMatches(s, needle, minRun, exts) ==
    {[start |-> p[1], g1 |-> p[1], g2 |-> p[2]] :
        p \in {p \in {i \in 1..Len(s) : WordBoundary(s, i)}
                     \X {i \in 1..Len(s) : WordBoundary(s, i + 1)} :
            \E d \in p[1]..(p[2] - 3) :
                /\ s[d] = "."
                /\ d - p[1] >= minRun
                /\ p[2] \in ExtEnds(s, d + 1, exts)
                /\ \A k \in p[1]..(d - 1) : IsNameChar(s[k])
                /\ Contains(lower(SubSeq(s, p[1], d - 1)), needle)}}

\* group of the first match: leftmost start, then the longest group
FirstGroup(s, matches) ==
    LET first == Min({m.start : m \in matches})
        stop == Max({m.g2 : m \in {x \in matches : x.start = first}})
        m0 == CHOOSE m \in matches : m.start = first /\ m.g2 = stop
    IN SubSeq(s, m0.g1, m0.g2)

\* file_patterns, in priority order
file_patterns(s) == <<
    QuotedFilenameMatches(s),
    KeywordQuotedMatches(s, <<"f","i","l","e">>),
    KeywordQuotedMatches(s, <<"d","o","c","u","m","e","n","t">>),
    BareFilenameMatches(s, <<>>, 1, AllExts),
    BareFilenameMatches(s, <<"c","v">>, 0, PdfExt),
    BareFilenameMatches(s, <<"r","e","s","u","m","e">>, 0, PdfDocExts) >>

\* the loop over file_patterns: the first pattern with a match decides
ExtractPotentialFilename(user_query) ==
    LET pats == file_patterns(user_query)
        hits == {p \in 1..Len(pats) : pats[p] # {}}
    IN IF hits = {} THEN NoneVal
       ELSE strip(FirstGroup(user_query, pats[Min(hits)]))

\* potential_filename.replace('.pdf', '').replace('.docx', '').replace('.txt', '')
StripKnownExtensions(name) ==
    replace_empty(replace_empty(replace_empty(name, <<".","p","d","f">>), <<".","d","o","c","x">>), <<".","t","x","t">>)

\* Python truthiness of an Optional[str]
Truthy(s) == s # NoneVal /\ s # <<>>

\* ------------------------------------------------------------------------
\* Filename extraction of get_relevant_context (src/agent/drive_utils.py)
\* ------------------------------------------------------------------------
\* re.search(r'["\']([^"\']+\.(?:pdf|docx?|txt|csv))["\']', user_query, re.I)
AgentFilenameMatches(s) ==
    {[start |-> p[1], g1 |-> p[1] + 1, g2 |-> p[2]] :
        p \in {p \in (1..Len(s)) \X (1..Len(s)) :
            /\ s[p[1]] \in QuoteChars
            /\ p[2] + 1 <= Len(s)
            /\ s[p[2] + 1] \in QuoteChars
            /\ \E j \in (p[1] + 1)..(p[2] - 4) :
                  /\ s[j + 1] = "."
                  /\ p[2] \in ExtEnds(s, j + 2, AllExts)
                  /\ \A k \in (p[1] + 1)..j : IsNonQuote(s[k])}}

\* search_query: the quoted filename, else the whole query
AgentSearchQuery(user_query) ==
    LET ms == AgentFilenameMatches(user_query)
    IN IF ms = {} THEN user_query ELSE FirstGroup(user_query, ms)

\* ------------------------------------------------------------------------
\* FileProcessor.clean_text  (src/utils/file_processing.py)
\* ------------------------------------------------------------------------
\* the characters of s at the positions lo..hi that belong to keep, in order
RECURSIVE KeepBetween(_, _, _, _)
KeepBetween(s, keep, lo, hi) ==
    IF lo > hi THEN <<>>
    ELSE IF lo = hi THEN (IF lo \in keep THEN <<s[lo]>> ELSE <<>>)
    ELSE LET mid == (lo + hi) \div 2
         IN KeepBetween(s, keep, lo, mid) \o KeepBetween(s, keep, mid + 1, hi)

\* ''.join(s[i] for i in range(len(s)) if i in keep)
KeepPositions(s, keep) == KeepBetween(s, keep, 1, Len(s))

\* re.sub(r'\s+', ' ', text): every maximal run of whitespace becomes one
\* space
collapse_whitespace(text) ==
    LET firsts == {i \in 1..Len(text) :
                      ~IsSpace(text[i]) \/ i = 1 \/ ~IsSpace(text[i - 1])}
        spaced == [i \in 1..Len(text) |-> IF IsSpace(text[i]) THEN " " ELSE text[i]]
    IN KeepPositions(spaced, firsts)

\* the last newline of the whitespace run that starts at position i
LastNewlineOfRun(text, i) ==
    Max({j \in i..Len(text) :
            text[j] = "\n" /\ \A k \in i..j : IsSpace(text[k])})

\* newlines of the whitespace run that starts at position i
NewlinesOfRun(text, i) ==
    Cardinality({j \in i..Len(text) :
                    text[j] = "\n" /\ \A k \in i..j : IsSpace(text[k])})

\* re.sub(r'\n\s*\n', '\n\n', text) for least = 2 and
\* re.sub(r'\n\s*\n\s*\n+', '\n\n', text) for least = 3: a stretch of
\* whitespace from a newline to the last newline of its run, holding at
\* least that many newlines, becomes a blank line
RECURSIVE sub_blank_lines(_, _)
sub_blank_lines(text, least) ==
    LET starts == {i \in 1..Len(text) :
                      text[i] = "\n" /\ NewlinesOfRun(text, i) >= least}
    IN IF starts = {} THEN text
       ELSE LET i == Min(starts)
                j == LastNewlineOfRun(text, i)
            IN SubSeq(text, 1, i - 1) \o <<"\n","\n">>
               \o sub_blank_lines(SubSeq(text, j + 1, Len(text)), least)

\* the punctuation re.sub(r'[^\w\s\.\,\!\?\;\:\-\(\)\[\]\"\'\/@\%\$\#\&\*\+\=\|\\\n]', '', text)
\* keeps, besides \w and \s
KeptPunctuation ==
    {".", ",", "!", "?", ";", ":", "-", "(", ")", "[", "]", "\"", "'", "/",
     "@", "%", "$", "#", "&", "*", "+", "=", "|", "\\"}

IsCleanChar(c) == IsWord(c) \/ IsSpace(c) \/ c \in KeptPunctuation

\* re.sub(r'[^...]', '', text)
remove_disallowed(text) ==
    KeepPositions(text, {i \in 1..Len(text) : IsCleanChar(text[i])})

\* re.sub(c{least,}, c * most, text): a run of at least `least` characters c
\* is cut down to its first `most`
cap_runs(text, c, least, most) ==
    LET run_start(i) ==
            Min({a \in 1..i : \A k \in a..i : text[k] = c})
        run_end(i) ==
            Max({b \in i..Len(text) : \A k \in i..b : text[k] = c})
        keep == {i \in 1..Len(text) :
                    \/ text[i] # c
                    \/ run_end(i) - run_start(i) + 1 < least
                    \/ i - run_start(i) < most}
    IN KeepPositions(text, keep)

\* a normaliser that cleans up the punctuation before it removes the
\* characters it does not keep
clean_textRemoveLast(text) ==
    IF ~Truthy(text) THEN <<>>
    ELSE
    LET t1 == collapse_whitespace(text)
        t2 == sub_blank_lines(t1, 2)
        t4 == cap_runs(t2, ".", 3, 3)
        t5 == cap_runs(t4, "!", 2, 1)
        t6 == cap_runs(t5, "?", 2, 1)
        t7 == cap_runs(t6, " ", 1, 1)
        t8 == sub_blank_lines(t7, 3)
        t3 == remove_disallowed(t8)
    IN strip(t3)

\* if not text: return ""
clean_text(text) ==
    IF ~Truthy(text) THEN <<>>
    ELSE
    LET t1 == collapse_whitespace(text)
        t2 == sub_blank_lines(t1, 2)
        t3 == remove_disallowed(t2)
        t4 == cap_runs(t3, ".", 3, 3)
        t5 == cap_runs(t4, "!", 2, 1)
        t6 == cap_runs(t5, "?", 2, 1)
        t7 == cap_runs(t6, " ", 1, 1)
        t8 == sub_blank_lines(t7, 3)
    IN strip(t8)

\* ------------------------------------------------------------------------
\* FileProcessor.truncate_content  (src/utils/file_processing.py)
\* ------------------------------------------------------------------------
\* s.split(sep) for a non-empty sep
RECURSIVE split_on(_, _)
split_on(s, sep) ==
    LET hits == {i \in 1..Len(s) : OccursAt(s, sep, i)}
    IN IF hits = {} THEN <<s>>
       ELSE <<SubSeq(s, 1, Min(hits) - 1)>>
            \o split_on(SubSeq(s, Min(hits) + Len(sep), Len(s)), sep)

IsSentenceEnd(c) == c \in {".", "!", "?"}

\* re.split(r'[.!?]+', s)
RECURSIVE split_sentences(_)
split_sentences(s) ==
    LET hits == {i \in 1..Len(s) : IsSentenceEnd(s[i])}
    IN IF hits = {} THEN <<s>>
       ELSE <<SubSeq(s, 1, Min(hits) - 1)>>
            \o split_sentences(SubSeq(s, RunEnd(s, IsSentenceEnd, Min(hits)) + 1, Len(s)))

\* the inner loop over sentences
RECURSIVE AddSentences(_, _, _, _)
AddSentences(sentences, k, truncated, max_length) ==
    IF k > Len(sentences) THEN truncated
    ELSE IF Len(truncated) + Len(sentences[k]) <= max_length - 50
    THEN AddSentences(sentences, k + 1, truncated \o sentences[k] \o <<"."," ">>, max_length)
    ELSE truncated

\* the outer loop over sections
RECURSIVE AddSections(_, _, _, _)
AddSections(sections, k, truncated, max_length) ==
    IF k > Len(sections) THEN truncated
    ELSE IF Len(truncated) + Len(sections[k]) <= max_length - 100
    THEN AddSections(sections, k + 1, truncated \o sections[k] \o <<"\n","\n">>, max_length)
    ELSE AddSentences(split_sentences(sections[k]), 1, truncated, max_length)

\* a word-level cut that keeps one character too many
truncate_contentWide(text, max_length) ==
    IF ~Truthy(text) \/ Len(text) <= max_length THEN text
    ELSE
    LET structured == AddSections(split_on(text, <<"\n","\n">>), 1, <<>>, max_length)
        words == split(Take(text, max_length + 1))
        truncated ==
            IF strip(structured) # <<>> THEN structured
            ELSE IF Len(words) > 1
            THEN join(<<" ">>, SubSeq(words, 1, Len(words) - 1))
            ELSE Take(text, max_length + 1)
    IN strip(truncated) \o <<".",".",".">>

truncate_content(text, max_length) ==
    IF ~Truthy(text) \/ Len(text) <= max_length THEN text
    ELSE
    LET structured == AddSections(split_on(text, <<"\n","\n">>), 1, <<>>, max_length)
        words == split(Take(text, max_length))
        truncated ==
            IF strip(structured) # <<>> THEN structured
            ELSE IF Len(words) > 1
            THEN join(<<" ">>, SubSeq(words, 1, Len(words) - 1))
            ELSE Take(text, max_length)
    IN strip(truncated) \o <<".",".",".">>

\* ------------------------------------------------------------------------
\* The format registry (GoogleDriveUtils.__init__)
\* ------------------------------------------------------------------------
MimeGoogleDoc == "application/vnd.google-apps.document"
MimeText == "text/plain"
MimeCsv == "text/csv"
MimePdf == "application/pdf"
MimeMarkdown == "text/markdown"
MimeWord == "application/vnd.openxmlformats-officedocument.wordprocessingml.document"

\* list(self.supported_types.keys())
supported_mime_types ==
    <<MimeGoogleDoc, MimeText, MimeCsv, MimePdf, MimeMarkdown, MimeWord>>

\* self.supported_types.get(mime_type, 'Unknown')
type_name_of(mime_type) ==
    CASE mime_type = MimeGoogleDoc -> <<"G","o","o","g","l","e"," ","D","o","c","s">>
      [] mime_type = MimeText -> <<"T","e","x","t"," ","F","i","l","e">>
      [] mime_type = MimeCsv -> <<"C","S","V"," ","F","i","l","e">>
      [] mime_type = MimePdf -> <<"P","D","F"," ","F","i","l","e">>
      [] mime_type = MimeMarkdown -> <<"M","a","r","k","d","o","w","n"," ","F","i","l","e">>
      [] mime_type = MimeWord -> <<"W","o","r","d"," ","D","o","c","u","m","e","n","t">>
      [] OTHER -> <<"U","n","k","n","o","w","n">>

\* ------------------------------------------------------------------------
\* GoogleDriveUtils.search_files
\* ------------------------------------------------------------------------
\* re.sub(r'\.(pdf|docx?|txt|csv)$', '', query, flags=re.IGNORECASE); $ is
\* the end of the string or the position before a final newline
StripTrailingExtension(query) ==
    LET n == Len(query)
        ends == {n} \cup (IF n >= 1 /\ query[n] = "\n" THEN {n - 1} ELSE {})
        hits == {d \in 1..n : query[d] = "." /\ ExtEnds(query, d + 1, AllExts) \cap ends # {}}
    IN IF hits = {} THEN query
       ELSE LET d == Min(hits)
                e == Max(ExtEnds(query, d + 1, AllExts) \cap ends)
            IN SubSeq(query, 1, d - 1) \o SubSeq(query, e + 1, n)

\* terms taken from the query without replacing the separators
SearchTermsUtilsRaw(query) ==
    IF ~Truthy(query) THEN <<>>
    ELSE SelectSeqP(split(strip(StripTrailingExtension(query))),
                    LAMBDA term : Len(term) > 2)

\* terms of src/utils/drive_utils.py: separators become spaces, the terms
\* are the whitespace-separated pieces longer than 2 characters
SearchTermsUtils(query) ==
    IF ~Truthy(query) THEN <<>>
    ELSE
    LET stripped == StripTrailingExtension(query)
        clean_query ==
            strip([i \in 1..Len(stripped) |->
                      IF IsKeptChar(stripped[i]) THEN stripped[i] ELSE " "])
    IN SelectSeqP(split(clean_query), LAMBDA term : Len(term) > 2)

\* terms of src/agent/drive_utils.py: the \w+ runs longer than 2 characters
SearchTermsAgent(query) ==
    IF ~Truthy(query) THEN <<>>
    ELSE
    LET clean_query == strip(StripTrailingExtension(query))
    IN SelectSeqP(findall_words(clean_query), LAMBDA term : Len(term) > 2)

\* a predicate without the trashed=false conjunct
BuildPredicateNoTrash(terms, file_types) ==
    [name_terms |-> terms,
     mime_types |-> IF file_types = <<>> THEN supported_mime_types ELSE file_types,
     not_trashed |-> FALSE]

\* final_query: the predicate sent to the provider, as its three conjuncts
BuildPredicate(terms, file_types) ==
    [name_terms |-> terms,
     mime_types |-> IF file_types = <<>> THEN supported_mime_types ELSE file_types,
     not_trashed |-> TRUE]

\* orderBy of src/utils/drive_utils.py and of src/agent/drive_utils.py
OrderByName == "name"
OrderByModifiedTimeDesc == "modifiedTime desc"

\* the provider's ordering of a listing: by name, smallest first, or by
\* modifiedTime, latest first; names and RFC 3339 times are compared
\* character by character, and files of equal key stay in the Drive's order
OrderedBy(files, orderBy) ==
    IF orderBy = OrderByName
    THEN SortedBy(files, LAMBDA f : f.name, LAMBDA a, b : StrLess(a, b))
    ELSE SortedBy(files, LAMBDA f : f.modifiedTime, LAMBDA a, b : StrLess(b, a))

\* The provider's files().list(q, pageSize, orderBy).execute() on a Drive
\* holding `files`: the files satisfying q, in the order asked for, at most
\* pageSize of them.  "name contains" ignores case.
FilesList(files, q, pageSize, orderBy) ==
    Take(OrderedBy(SelectSeqP(files,
             LAMBDA f :
                /\ (q.not_trashed => ~f.trashed)
                /\ f.mimeType \in Range(q.mime_types)
                /\ \/ q.name_terms = <<>>
                   \/ \E k \in 1..Len(q.name_terms) :
                         Contains(lower(f.name), lower(q.name_terms[k]))),
             orderBy),
         pageSize)

\* enriched_file
Enrich(file_info) ==
    [id |-> file_info.id,
     name |-> file_info.name,
     mimeType |-> file_info.mimeType,
     type_name |-> type_name_of(file_info.mimeType),
     size |-> file_info.size,
     modified |-> file_info.modifiedTime,
     created |-> file_info.createdTime,
     url |-> file_info.webViewLink]

\* The outcomes of the remote call
RemoteOutcomes == {"ok", "HttpError", "Exception"}

\* a search_files that catches HttpError only
SearchResultHttpOnly(files, terms, file_types, limit, orderBy, outcome) ==
    LET listed == FilesList(files, BuildPredicate(terms, file_types), limit, orderBy)
    IN IF outcome = "ok"
       THEN [raised |-> FALSE, files |-> [k \in 1..Len(listed) |-> Enrich(listed[k])]]
       ELSE [raised |-> outcome = "Exception", files |-> <<>>]

\* search_files(query, file_types, limit) given the terms its variant derives
\* from the query, the ordering it asks for and the outcome of the remote call.  The value tells
\* whether the call raised to its caller and the list it returned.
SearchResult(files, terms, file_types, limit, orderBy, outcome) ==
    LET listed == FilesList(files, BuildPredicate(terms, file_types), limit, orderBy)
    IN IF outcome = "ok"
       THEN [raised |-> FALSE, files |-> [k \in 1..Len(listed) |-> Enrich(listed[k])]]
       ELSE [raised |-> FALSE, files |-> <<>>]

\* ------------------------------------------------------------------------
\* GoogleDriveUtils.get_file_content and the per-format extractors
\* ------------------------------------------------------------------------
\* What the provider and the parsing libraries yield for a file.  A download
\* or a parser that raises:
Unavailable == [kind |-> "unavailable"]
\* the decoded bytes of a text download or export; for Markdown, the HTML
\* markdown.markdown renders
TextMedia(text) == [kind |-> "text", text |-> text]
\* PyPDF2.PdfReader(...).pages: for each page, whether extract_text raises
\* and the text it returns otherwise
PdfPage(raises, text) == [raises |-> raises, text |-> text]
PdfMedia(pages) == [kind |-> "pdf", pages |-> pages]
\* docx.Document(...).paragraphs, as their texts
WordMedia(paragraphs) == [kind |-> "word", paragraphs |-> paragraphs]
\* pd.read_csv(...): the number of rows, the column names, the rendering
\* df.head().to_string(index=False) and the rendering of describe() of the
\* numeric columns (None when there is none)
CsvMedia(rows, columns, head, describe) ==
    [kind |-> "csv", rows |-> rows, columns |-> columns, head |-> head,
     describe |-> describe]

\* str(n) for n >= 0
RECURSIVE str_int(_)
str_int(n) ==
    IF n < 10 THEN <<DigitSeq[n + 1]>>
    ELSE str_int(n \div 10) \o <<DigitSeq[(n % 10) + 1]>>

\* f"\n--- Page {page_num + 1} ---\n"
PageMarkerLine(k) == <<"\n","-","-","-"," ","P","a","g","e"," ">> \o str_int(k) \o <<" ","-","-","-","\n">>

\* a check that takes a page with blank text for a page with text
PageHasTextLoose(page) ==
    ~page.raises /\ Truthy(page.text)

\* page_text and page_text.strip()
PageHasText(page) ==
    ~page.raises /\ Truthy(page.text) /\ strip(page.text) # <<>>

\* the loop over the pages: text_content after the pages k..n
RECURSIVE PdfTextContent(_, _)
PdfTextContent(pages, k) ==
    IF k > Len(pages) THEN <<>>
    ELSE (IF PageHasText(pages[k])
          THEN PageMarkerLine(k) \o pages[k].text \o <<"\n">>
          ELSE <<>>)
         \o PdfTextContent(pages, k + 1)

_extract_pdf_content(media) ==
    IF media.kind # "pdf" THEN NoneVal
    ELSE LET text_content == PdfTextContent(media.pages, 1)
         IN IF strip(text_content) # <<>> THEN clean_text(text_content) ELSE NoneVal

_extract_google_doc_content(media) ==
    IF media.kind # "text" THEN NoneVal ELSE clean_text(media.text)

_extract_text_file_content(media) ==
    IF media.kind # "text" THEN NoneVal ELSE clean_text(media.text)

\* the summary of a parsed CSV
CsvSummary(media) ==
    <<"C","S","V"," ","D","a","t","a"," ","S","u","m","m","a","r","y",":","\n">>
    \o <<"R","o","w","s",":"," ">> \o str_int(media.rows) \o <<","," ","C","o","l","u","m","n","s",":"," ">>
    \o str_int(Len(media.columns)) \o <<"\n">>
    \o <<"C","o","l","u","m","n"," ","N","a","m","e","s",":"," ">> \o join(<<","," ">>, media.columns) \o <<"\n","\n">>
    \o (IF media.rows > 0
        THEN <<"S","a","m","p","l","e"," ","D","a","t","a"," ","(","f","i","r","s","t"," ","5"," ","r","o","w","s",")",":","\n">> \o media.head
             \o (IF media.describe # NoneVal
                 THEN <<"\n","\n","N","u","m","e","r","i","c"," ","C","o","l","u","m","n"," ","S","t","a","t","i","s","t","i","c","s",":","\n">> \o media.describe
                 ELSE <<>>)
        ELSE <<>>)

_extract_csv_content(media) ==
    IF media.kind # "csv" THEN NoneVal ELSE CsvSummary(media)

\* re.sub('<[^<]+?>', '', html): from a '<', the shortest stretch of one or
\* more characters other than '<' that is followed by '>'
RECURSIVE strip_tags(_)
strip_tags(html) ==
    LET close(i) == {j \in (i + 2)..Len(html) :
                        html[j] = ">" /\ \A k \in (i + 1)..(j - 1) : html[k] # "<"}
        opens == {i \in 1..Len(html) : html[i] = "<" /\ close(i) # {}}
    IN IF opens = {} THEN html
       ELSE LET i == Min(opens)
                j == Min(close(i))
            IN SubSeq(html, 1, i - 1) \o strip_tags(SubSeq(html, j + 1, Len(html)))

_extract_markdown_content(media) ==
    IF media.kind # "text" THEN NoneVal ELSE clean_text(strip_tags(media.text))

\* the loop over the paragraphs
RECURSIVE WordTextContent(_)
WordTextContent(paragraphs) ==
    IF paragraphs = <<>> THEN <<>>
    ELSE Head(paragraphs) \o <<"\n">> \o WordTextContent(Tail(paragraphs))

_extract_word_content(media) ==
    IF media.kind # "word" THEN NoneVal
    ELSE clean_text(WordTextContent(media.paragraphs))

\* the dispatch on the declared format
ExtractByFormat(media, mime_type) ==
    CASE mime_type = MimeGoogleDoc -> _extract_google_doc_content(media)
      [] mime_type = MimeText -> _extract_text_file_content(media)
      [] mime_type = MimeCsv -> _extract_csv_content(media)
      [] mime_type = MimePdf -> _extract_pdf_content(media)
      [] mime_type = MimeMarkdown -> _extract_markdown_content(media)
      [] mime_type = MimeWord -> _extract_word_content(media)
      [] OTHER -> NoneVal

\* a dispatch that starts the download before it looks at the format
MediaRequestsAnyFormat(file_id, mime_type) == <<file_id>>

\* the remote download or export requests one call issues, as file ids
MediaRequests(file_id, mime_type) ==
    IF mime_type \in Range(supported_mime_types) THEN <<file_id>> ELSE <<>>

\* content and len(content.strip()) > 50
MinContentLength == 50

\* the gate with >= in place of >
IsUsableInclusive(content) == Truthy(content) /\ Len(strip(content)) >= MinContentLength

IsUsable(content) == Truthy(content) /\ Len(strip(content)) > MinContentLength

\* ------------------------------------------------------------------------
\* Ranking
\* ------------------------------------------------------------------------
\* list.sort(key=Key, reverse=True): by decreasing key, elements of equal key
\* in their original order.  The keys are computed once per element, as
\* list.sort does; Greater(a, b) tells a > b for two keys.
SortDescending(xs, Key(_), Greater(_, _)) == SortedBy(xs, Key, Greater)

\* src/utils/drive_utils.py: sort by similarity to the extension-stripped
\* target
RankBySimilarity(files, potential_filename) ==
    LET clean_target == StripKnownExtensions(lower(potential_filename))
    IN SortDescending(files,
                      LAMBDA x : SimilarityFraction(lower(x.name), clean_target),
                      FracGreater)

\* a score without the bonus for a near-exact filename match
calculate_relevanceNoExactBonus(file_info, user_query) ==
    LET filename == lower(file_info.name)
        query_terms == Range(findall_words(lower(user_query)))
        file_terms == Range(findall_words(filename))
        matches == Cardinality(query_terms \cap file_terms)
        pdf_bonus == IF Contains(lower(user_query), <<"p","d","f">>) /\ endswith(filename, <<".","p","d","f">>)
                     THEN 2 ELSE 0
    IN matches + pdf_bonus

\* src/agent/drive_utils.py: calculate_relevance
calculate_relevance(file_info, user_query) ==
    LET filename == lower(file_info.name)
        query_terms == Range(findall_words(lower(user_query)))
        file_terms == Range(findall_words(filename))
        matches == Cardinality(query_terms \cap file_terms)
        pdf_bonus == IF Contains(lower(user_query), <<"p","d","f">>) /\ endswith(filename, <<".","p","d","f">>)
                     THEN 2 ELSE 0
        clean_query == strip_non_alnum(lower(user_query))
        clean_filename == strip_non_alnum(filename)
        exact_bonus == IF Contains(clean_filename, clean_query)
                          \/ Contains(clean_query, clean_filename)
                       THEN 5 ELSE 0
    IN matches + pdf_bonus + exact_bonus

IntGreater(a, b) == a > b

\* a sort that puts files of equal score in the reverse of their input order
RankByRelevanceTiesReversed(files, user_query) ==
    SortDescending([k \in 1..Len(files) |-> files[Len(files) + 1 - k]],
                   LAMBDA x : calculate_relevance(x, user_query), IntGreater)

RankByRelevance(files, user_query) ==
    SortDescending(files, LAMBDA x : calculate_relevance(x, user_query), IntGreater)

\* ------------------------------------------------------------------------
\* Sections and source entries
\* ------------------------------------------------------------------------
MaxSectionLength == 1500

\* src/utils/drive_utils.py: the header line of a section
HeaderUtils(file_info) ==
    <<"-","-","-"," ","C","o","n","t","e","n","t"," ","f","r","o","m"," ","f","i","l","e",":"," ">> \o file_info.name \o <<" ","(">> \o file_info.type_name
    \o <<")"," ","-","-","-","\n">>

SectionUtils(file_info, content) ==
    HeaderUtils(file_info) \o truncate_content(content, MaxSectionLength) \o <<"\n">>

SourceUtilsNamedByType(file_info) ==
    [id |-> file_info.id, name |-> file_info.type_name, type |-> file_info.type_name,
     url |-> file_info.url, modified |-> file_info.modified,
     created |-> file_info.created]

SourceUtils(file_info) ==
    [id |-> file_info.id, name |-> file_info.name, type |-> file_info.type_name,
     url |-> file_info.url, modified |-> file_info.modified,
     created |-> file_info.created]

HeaderRule == [i \in 1..60 |-> "="]

\* src/agent/drive_utils.py: file_header
HeaderAgent(file_info) ==
    <<"\n">> \o HeaderRule \o <<"\n","F","i","l","e",":"," ">> \o file_info.name \o <<"\n","T","y","p","e",":"," ">>
    \o file_info.type_name \o <<"\n">> \o HeaderRule \o <<"\n">>

SectionAgent(file_info, content) == HeaderAgent(file_info) \o content

SourceAgent(file_info) ==
    [id |-> file_info.id, name |-> file_info.name, type |-> file_info.type_name]

\* a reorder that leaves the list as it is
MoveLastToFrontNoop(xs) == xs

\* context_parts.insert(0, context_parts.pop())
MoveLastToFront(xs) == <<xs[Len(xs)]>> \o SubSeq(xs, 1, Len(xs) - 1)

\* successful_extractions >= 3
MaxExtractions == 3

\* the limit check off by one
LimitReachedLate(successful_extractions) == successful_extractions > MaxExtractions

\* the limit check stopping one extraction early
LimitReachedEarly(successful_extractions) == successful_extractions >= MaxExtractions - 1

\* limit check closing an iteration of the extraction loop
LimitReached(successful_extractions) == successful_extractions >= MaxExtractions

\* a loop that tries a failed candidate again
NextIndexRetry(idx, usable) == IF usable THEN idx + 1 ELSE idx

\* a loop that gives up at the first candidate without usable content
NextIndexStopOnFailure(idx, usable) == IF usable THEN idx + 1 ELSE idx + 100

\* the loop moves to the next candidate whatever the outcome of this one
NextIndex(idx, usable) == idx + 1

\* return "", []
EmptyContext == [text |-> <<>>, sources |-> <<>>]

\* ------------------------------------------------------------------------
\* Bounds and inputs
\* ------------------------------------------------------------------------
\* most files a Drive holds
MaxDriveFiles == 4
\* largest max_files a caller passes
MaxFilesArg == 5
\* characters of the longest file, more than a section may hold
LongFileLength == 1600

\* n characters of running text
Filler(n) == [i \in 1..n |-> "x"]

\* a file of the Drive as files().list reports it, with the media its
\* download yields
DriveFile(id, name, mimeType, trashed, media, modifiedTime) ==
    [id |-> id, name |-> name, mimeType |-> mimeType, trashed |-> trashed,
     media |-> media, size |-> "Unknown", modifiedTime |-> modifiedTime,
     createdTime |-> "2023-01-01", webViewLink |-> id]

\* the files a Drive is drawn from, each with the time of its last change: one per
\* supported format with 51 characters of text or more, one that extracts
\* to exactly 50 characters, one whose download fails, one in the trash,
\* one of an unsupported format
FilePool == <<
    DriveFile("f1", <<"m","y"," ","r","e","s","u","m","e">>, MimeGoogleDoc, FALSE,
              TextMedia(Filler(51) \o <<"","\n">>),
              <<"2","0","2","4","-","0","3","-","0","7","T","0","9",":","0","0",":","0","0",".","0","0","0","Z">>),
    DriveFile("f2", <<"r","e","s","u","m","e">>, MimeMarkdown, FALSE,
              TextMedia(<<"<","p",">">> \o Filler(60) \o <<"<","/","p",">">>),
              <<"2","0","2","4","-","0","3","-","0","4","T","0","9",":","0","0",":","0","0",".","0","0","0","Z">>),
    DriveFile("f3", <<"R","e","s","u","m","e",".","p","d","f">>, MimePdf, FALSE, Unavailable,
              <<"2","0","2","4","-","0","3","-","0","2","T","0","9",":","0","0",":","0","0",".","0","0","0","Z">>),
    DriveFile("f4", <<"r","e","s","u","m","e",".","p","d","f">>, MimePdf, FALSE,
              PdfMedia(<<PdfPage(FALSE, <<" ">>), PdfPage(FALSE, Filler(36))>>),
              <<"2","0","2","4","-","0","3","-","0","8","T","0","9",":","0","0",":","0","0",".","0","0","0","Z">>),
    DriveFile("f5", <<"c","o","v","e","r","_","l","e","t","t","e","r",".","d","o","c","x">>, MimeWord, FALSE,
              WordMedia(<<Filler(25), Filler(24)>>),
              <<"2","0","2","4","-","0","3","-","0","1","T","0","9",":","0","0",":","0","0",".","0","0","0","Z">>),
    DriveFile("f6", <<"b","u","d","g","e","t",".","c","s","v">>, MimeCsv, FALSE,
              CsvMedia(1, <<<<"i","t","e","m">>, <<"c","o","s","t">>>>, <<"i","t","e","m"," "," ","c","o","s","t","\n"," ","t","e","a"," "," "," "," "," ","3">>,
                       <<" "," "," "," "," "," "," ","c","o","s","t","\n","c","o","u","n","t"," "," "," ","1",".","0">>),
              <<"2","0","2","4","-","0","3","-","0","6","T","0","9",":","0","0",":","0","0",".","0","0","0","Z">>),
    DriveFile("f7", <<"o","l","d"," ","b","u","d","g","e","t",".","t","x","t">>, MimeText, TRUE,
              TextMedia(Filler(51)),
              <<"2","0","2","4","-","0","3","-","0","5","T","0","9",":","0","0",":","0","0",".","0","0","0","Z">>),
    DriveFile("f8", <<"b","u","d","g","e","t",".","b","i","n">>, "application/octet-stream", FALSE,
              TextMedia(Filler(51)),
              <<"2","0","2","4","-","0","3","-","0","3","T","0","9",":","0","0",":","0","0",".","0","0","0","Z">>) >>

\* files longer than a section may hold: one word of LongFileLength
\* characters, and sentences that add up to as many
LongPool == <<
    DriveFile("l1", <<"r","e","s","u","m","e">>, MimeText, FALSE,
              TextMedia(Filler(LongFileLength)),
              <<"2","0","2","4","-","0","3","-","0","2","T","0","9",":","0","0",":","0","0",".","0","0","0","Z">>),
    DriveFile("l2", <<"r","e","s","u","m","e"," ","n","o","t","e","s">>, MimeGoogleDoc, FALSE,
              TextMedia(Filler(700) \o <<"."," ">> \o Filler(700) \o <<"."," ">>
                        \o Filler(LongFileLength - 1404)),
              <<"2","0","2","4","-","0","3","-","0","3","T","0","9",":","0","0",":","0","0",".","0","0","0","Z">>),
    DriveFile("l3", <<"b","u","d","g","e","t">>, MimePdf, FALSE, Unavailable,
              <<"2","0","2","4","-","0","3","-","0","1","T","0","9",":","0","0",":","0","0",".","0","0","0","Z">>) >>

KnownFiles == FilePool \o LongPool

\* The extractors are functions of the media alone: what they yield for each
\* known file under its declared format, computed once
ExtractedFromPool ==
    [i \in 1..Len(KnownFiles) |->
        ExtractByFormat(KnownFiles[i].media, KnownFiles[i].mimeType)]

\* the extractor's result for a file of the Drive
ExtractorText(files, file_id, mime_type) ==
    LET f == CHOOSE x \in Range(files) : x.id = file_id
        i == CHOOSE k \in 1..Len(KnownFiles) : KnownFiles[k] = f
    IN IF mime_type = f.mimeType THEN ExtractedFromPool[i]
       ELSE ExtractByFormat(f.media, mime_type)

get_file_content(files, file_id, mime_type) ==
    IF mime_type \notin Range(supported_mime_types) THEN NoneVal
    ELSE LET content == ExtractorText(files, file_id, mime_type)
         IN IF Truthy(content) THEN content ELSE NoneVal

Drives ==
    {SelectSeqP(FilePool, LAMBDA f : f.id \in ids) :
        ids \in {S \in SUBSET {FilePool[i].id : i \in 1..Len(FilePool)} :
                    Cardinality(S) <= MaxDriveFiles}}

\* Drives that hold long files
LongDrives ==
    {SelectSeqP(LongPool, LAMBDA f : f.id \in ids) :
        ids \in SUBSET {LongPool[i].id : i \in 1..Len(LongPool)}}

Queries == {
    <<"F","i","n","d"," ","m","y"," ","r","e","s","u","m","e",".","p","d","f">>,
    <<"r","e","s","u","m","e",".","p","d","f">>,
    <<"o","p","e","n"," ","'","r","e","s","u","m","e",".","p","d","f","'">>,
    <<"b","u","d","g","e","t"," ","n","o","t","e","s">>,
    <<"z","z">>,
    NoneVal }

MaxFilesArgs == {2, MaxFilesArg}

Variants == {"utils", "agent"}

\* ------------------------------------------------------------------------
\* State
\* ------------------------------------------------------------------------
VARIABLES
    provider,               \* the Drive: its files as the provider stores them
    pc,                     \* position inside get_relevant_context
    variant,                \* the module whose GoogleDriveUtils is running
    user_query,
    max_files,
    potential_filename,
    keywords,
    relevant_files,
    idx,                    \* position of the extraction loop
    context_parts,
    source_files,
    successful_extractions,
    result,                 \* the returned pair, NoResult before the return
    raised,                 \* the call went through its except handler
    list_calls,             \* the remote listing calls issued by this call
    last_search,            \* outcome and value of the last search_files
    attempts,               \* ids passed to get_file_content by this call
    downloads,              \* ids whose media was requested from the provider
    requested_file,         \* the file given to a direct get_file_content call
    returned_content,       \* what a direct call of get_file_content returned
    history,                \* a text and what the text functions made of it
    applied,                \* the functions applied to it, in order
    max_length_arg,         \* the max_length passed to truncate_content
    pdf_pages,              \* the pages of the PDF given to _extract_pdf_content
    search_args,            \* the query and file_types given to search_files
    sent_query,             \* the q that search_files sent to files().list
    keyword_args,           \* the calls of extract_keywords made on its own
    keyword_list,           \* the list that extract_keywords returned
    drive_utils,            \* the orchestrator has a retrieval object
    conversation_history,   \* the orchestrator's conversation_history
    appended,               \* every message process_query ever appended
    call_count,             \* the calls of process_query made so far
    retrieved,              \* what get_relevant_context gave the latest call
    llm_calls,              \* the generate_response call of the latest call
    final_response,         \* the record the latest call returned
    propagated,             \* an exception left the latest call
    download_pc,            \* position inside the download loop of a candidate
    chunks                  \* chunks the running download has delivered

vars == <<provider, pc, variant, user_query, max_files, potential_filename,
          keywords, relevant_files, idx, context_parts, source_files,
          successful_extractions, result, raised, list_calls, last_search,
          attempts, downloads, requested_file, returned_content, history,
          applied, max_length_arg, pdf_pages, search_args, sent_query,
          keyword_args, keyword_list, drive_utils, conversation_history,
          appended, call_count, retrieved, llm_calls, final_response,
          propagated, download_pc, chunks>>

\* the state of search_files exercised on its own
searchvars == <<search_args, sent_query>>

\* the state of the download loop when it is followed chunk by chunk
loopvars == <<download_pc, chunks>>

\* the state of the orchestrator
orchvars == <<drive_utils, conversation_history, appended, call_count,
              retrieved, llm_calls, final_response, propagated>>

\* the state of extract_keywords exercised on its own
keywordvars == <<keyword_args, keyword_list>>

\* the state of the functions exercised on their own, those of the text
\* functions first
auxvars == <<searchvars, keywordvars, orchvars, loopvars>>

textvars == <<history, applied, max_length_arg, pdf_pages, auxvars>>

\* the state of a direct call of get_file_content
direct == <<requested_file, returned_content>>

locals == <<potential_filename, keywords, relevant_files, idx, context_parts,
            source_files, successful_extractions>>

\* nothing returned yet
NoResult == [text |-> NoneVal, sources |-> <<>>]

\* no direct call of get_file_content has been made
NoFile == [id |-> "", mimeType |-> ""]

NoSearch == [outcome |-> "none", raised |-> FALSE, files |-> <<>>]

\* no call of the retrieval object is in progress
Idle ==
    /\ pc = "idle"
    /\ variant = "utils"
    /\ user_query = NoneVal
    /\ max_files = MaxFilesArg
    /\ potential_filename = NoneVal
    /\ keywords = <<>>
    /\ relevant_files = <<>>
    /\ idx = 1
    /\ context_parts = <<>>
    /\ source_files = <<>>
    /\ successful_extractions = 0
    /\ result = NoResult
    /\ raised = FALSE
    /\ list_calls = <<>>
    /\ last_search = NoSearch
    /\ attempts = <<>>
    /\ downloads = <<>>
    /\ requested_file = NoFile
    /\ returned_content = NoneVal

\* search_files has not been called on its own
NoSearchArgs == [query |-> NoneVal, file_types |-> NoneVal]

\* no download is followed chunk by chunk
NoDownload ==
    /\ download_pc = "none"
    /\ chunks = 0

\* no orchestrator has been built
NoOrchestrator ==
    /\ drive_utils = FALSE
    /\ conversation_history = <<>>
    /\ appended = <<>>
    /\ call_count = 0
    /\ retrieved = <<>>
    /\ llm_calls = <<>>
    /\ final_response = <<>>
    /\ propagated = FALSE

NoAux ==
    /\ search_args = NoSearchArgs
    /\ sent_query = NoneVal
    /\ keyword_args = <<>>
    /\ keyword_list = <<>>
    /\ NoOrchestrator
    /\ NoDownload

\* no function is being exercised on its own
NoText ==
    /\ history = <<>>
    /\ applied = <<>>
    /\ max_length_arg = 0
    /\ pdf_pages = <<>>
    /\ NoAux

Init ==
    /\ provider \in Drives
    /\ Idle
    /\ NoText

\* get_relevant_context(q, n) is entered on the instance of variant v
Call(v, q, n) ==
    /\ pc = "idle"
    /\ pc' = IF v = "utils" THEN "extract_filename" ELSE "agent_search"
    /\ variant' = v
    /\ user_query' = q
    /\ max_files' = n
    /\ potential_filename' = NoneVal
    /\ keywords' = <<>>
    /\ relevant_files' = <<>>
    /\ idx' = 1
    /\ context_parts' = <<>>
    /\ source_files' = <<>>
    /\ successful_extractions' = 0
    /\ result' = NoResult
    /\ raised' = FALSE
    /\ list_calls' = <<>>
    /\ last_search' = NoSearch
    /\ attempts' = <<>>
    /\ downloads' = <<>>
    /\ requested_file' = NoFile
    /\ returned_content' = NoneVal
    /\ UNCHANGED <<provider, textvars>>

\* the caller has taken the returned pair; the instance is ready for the
\* next call
Return ==
    /\ pc \in {"done", "content_done"}
    /\ pc' = "idle"
    /\ variant' = "utils"
    /\ user_query' = NoneVal
    /\ max_files' = MaxFilesArg
    /\ potential_filename' = NoneVal
    /\ keywords' = <<>>
    /\ relevant_files' = <<>>
    /\ idx' = 1
    /\ context_parts' = <<>>
    /\ source_files' = <<>>
    /\ successful_extractions' = 0
    /\ result' = NoResult
    /\ raised' = FALSE
    /\ list_calls' = <<>>
    /\ last_search' = NoSearch
    /\ attempts' = <<>>
    /\ downloads' = <<>>
    /\ requested_file' = NoFile
    /\ returned_content' = NoneVal
    /\ UNCHANGED <<provider, textvars>>

\* get_file_content(file_id, mime_type, file_name) called on its own for a
\* file of the Drive, whatever its declared format
GetFileContent(i) ==
    /\ pc = "idle"
    /\ i \in 1..Len(provider)
    /\ requested_file' = [id |-> provider[i].id, mimeType |-> provider[i].mimeType]
    /\ returned_content' =
          get_file_content(provider, provider[i].id, provider[i].mimeType)
    /\ downloads' = MediaRequests(provider[i].id, provider[i].mimeType)
    /\ pc' = "content_done"
    /\ UNCHANGED <<textvars, provider, variant, user_query, max_files, locals,
                   result, raised, list_calls, last_search, attempts>>

\* except Exception: return "", []
ExceptReturn ==
    /\ pc' = "done"
    /\ result' = EmptyContext
    /\ raised' = TRUE

\* a handler that returns what the loop had accumulated
PipelineExceptionPartial ==
    /\ pc \notin {"idle", "done", "content_done"}
    /\ pc' = "done"
    /\ result' = [text |-> join(<<"\n">>, context_parts), sources |-> source_files]
    /\ raised' = TRUE
    /\ UNCHANGED <<textvars, direct, downloads, provider, variant,
                   user_query, max_files, locals,
                   list_calls, last_search, attempts>>

\* An exception escapes a statement of the try body (a collaborator fails
\* unexpectedly) and reaches the handler of get_relevant_context
PipelineException ==
    /\ pc \notin {"idle", "done", "content_done"}
    /\ ExceptReturn
    /\ UNCHANGED <<textvars, direct, downloads, provider, variant,
                   user_query, max_files, locals,
                   list_calls, last_search, attempts>>

\* ------------------------------------------------------------------------
\* get_relevant_context of src/utils/drive_utils.py
\* ------------------------------------------------------------------------
\* a search stage that goes back to the keyword search after an empty
\* unfiltered listing
NextStageRetry(stage, files, clean_filename, kws) ==
    IF files # <<>> THEN "rank"
    ELSE CASE stage = "filename" /\ Len(split(clean_filename)) > 1 -> "words_search"
           [] stage \in {"extract", "filename", "words"} /\ kws # <<>> -> "keyword_search"
           [] stage \in {"extract", "filename", "words", "keywords"} -> "all_search"
           [] OTHER -> "keyword_search"

\* a search stage that goes on to the next search after the filename search
\* found files
NextStageSearchOn(stage, files, clean_filename, kws) ==
    IF files # <<>> /\ stage # "filename" THEN "rank"
    ELSE CASE stage = "filename" /\ Len(split(clean_filename)) > 1 -> "words_search"
           [] stage \in {"extract", "filename", "words"} /\ kws # <<>> -> "keyword_search"
           [] stage \in {"extract", "filename", "words", "keywords"} -> "all_search"
           [] OTHER -> "no_files"

\* where the search stage goes after the search of `stage` returned `files`
NextStage(stage, files, clean_filename, kws) ==
    IF files # <<>> THEN "rank"
    ELSE CASE stage = "filename" /\ Len(split(clean_filename)) > 1 -> "words_search"
           [] stage \in {"extract", "filename", "words"} /\ kws # <<>> -> "keyword_search"
           [] stage \in {"extract", "filename", "words", "keywords"} -> "all_search"
           [] OTHER -> "no_files"

\* filename patterns and keyword extraction; user_query.lower() raises on None
ExtractFilename ==
    /\ pc = "extract_filename"
    /\ IF user_query = NoneVal
       THEN /\ ExceptReturn
            /\ UNCHANGED locals
       ELSE /\ potential_filename' = ExtractPotentialFilename(user_query)
            /\ keywords' = extract_keywords(user_query, 10)
            /\ pc' = IF Truthy(potential_filename') THEN "filename_search"
                     ELSE NextStage("extract", <<>>, <<>>, keywords')
            /\ UNCHANGED <<relevant_files, idx, context_parts, source_files,
                           successful_extractions, result, raised>>
    /\ UNCHANGED <<textvars, direct, downloads, provider, variant,
                   user_query, max_files, list_calls,
                   last_search, attempts>>

\* one self.search_files(query=..., limit=max_files) of the search stage
SearchStep(stage, terms, outcome) ==
    LET r == SearchResult(provider, terms, <<>>, max_files, OrderByName, outcome)
    IN /\ list_calls' = Append(list_calls,
                               [q |-> BuildPredicate(terms, <<>>),
                                pageSize |-> max_files,
                                orderBy |-> OrderByName])
       /\ last_search' = [outcome |-> outcome, raised |-> r.raised, files |-> r.files]
       /\ IF r.raised
          THEN /\ ExceptReturn
               /\ UNCHANGED relevant_files
          ELSE /\ relevant_files' = r.files
               /\ pc' = NextStage(stage, r.files,
                                  StripKnownExtensions(potential_filename), keywords)
               /\ UNCHANGED <<result, raised>>
       /\ UNCHANGED <<textvars, direct, downloads, provider, variant,
                   user_query, max_files, potential_filename,
                      keywords, idx, context_parts, source_files,
                      successful_extractions, attempts>>

\* FIRST: search for the extension-stripped filename
SearchByFilename(outcome) ==
    /\ pc = "filename_search"
    /\ SearchStep("filename",
                  SearchTermsUtils(StripKnownExtensions(potential_filename)), outcome)

\* retry with ' '.join(clean_filename.split())
SearchByWords(outcome) ==
    /\ pc = "words_search"
    /\ SearchStep("words",
                  SearchTermsUtils(join(<<" ">>, split(StripKnownExtensions(potential_filename)))),
                  outcome)

\* SECOND: search for " ".join(keywords[:3])
SearchByKeywords(outcome) ==
    /\ pc = "keyword_search"
    /\ SearchStep("keywords", SearchTermsUtils(join(<<" ">>, Take(keywords, 3))), outcome)

\* THIRD: self.search_files(limit=max_files)
SearchAll(outcome) ==
    /\ pc = "all_search"
    /\ SearchStep("all", SearchTermsUtils(NoneVal), outcome)

\* if not relevant_files: return "", []
NoFilesReturn ==
    /\ pc = "no_files"
    /\ pc' = "done"
    /\ result' = EmptyContext
    /\ UNCHANGED <<textvars, direct, downloads, provider, variant,
                   user_query, max_files, locals, raised,
                   list_calls, last_search, attempts>>

\* sort by similarity when a filename is known, then enter the loop
Rank ==
    /\ pc = "rank"
    /\ relevant_files' = IF Truthy(potential_filename)
                         THEN RankBySimilarity(relevant_files, potential_filename)
                         ELSE relevant_files
    /\ context_parts' = <<>>
    /\ source_files' = <<>>
    /\ successful_extractions' = 0
    /\ idx' = 1
    /\ pc' = "loop"
    /\ UNCHANGED <<textvars, direct, downloads, provider, variant,
                   user_query, max_files, potential_filename,
                   keywords, result, raised, list_calls, last_search, attempts>>

\* self.get_file_content(file_info['id'], file_info['mimeType'], ...) is
\* entered for the candidate and its extractor creates the media request
EnterGetFileContent(file_info) ==
    /\ attempts' = Append(attempts, file_info.id)
    /\ downloads' = downloads \o MediaRequests(file_info.id, file_info.mimeType)

\* the rest of one iteration, for the candidate and what its extraction gave
ExtractStepWith(file_info, content) ==
    LET usable == IsUsable(content)
        parts == Append(context_parts, SectionUtils(file_info, content))
        sources == Append(source_files, SourceUtils(file_info))
        high == /\ Truthy(potential_filename)
                /\ IsHighMatch(lower(file_info.name), lower(potential_filename))
        more == NextIndex(idx, usable) <= Len(relevant_files)
    IN /\ IF usable /\ high
          THEN /\ context_parts' = IF Len(parts) > 1 THEN MoveLastToFront(parts) ELSE parts
               /\ source_files' = IF Len(parts) > 1 THEN MoveLastToFront(sources) ELSE sources
               /\ successful_extractions' = successful_extractions + 1
               /\ idx' = idx
               /\ pc' = "combine"
          ELSE /\ context_parts' = IF usable THEN parts ELSE context_parts
               /\ source_files' = IF usable THEN sources ELSE source_files
               /\ successful_extractions' =
                     IF usable THEN successful_extractions + 1 ELSE successful_extractions
               /\ IF LimitReached(successful_extractions') \/ ~more
                  THEN idx' = idx /\ pc' = "combine"
                  ELSE idx' = NextIndex(idx, usable) /\ pc' = "loop"

\* one iteration of: for file_info in relevant_files
ExtractStep ==
    /\ pc = "loop"
    /\ LET file_info == relevant_files[idx]
       IN /\ EnterGetFileContent(file_info)
          /\ ExtractStepWith(file_info,
                             get_file_content(provider, file_info.id, file_info.mimeType))
    /\ UNCHANGED <<textvars, direct, provider, variant, user_query,
                   max_files, potential_filename,
                   keywords, relevant_files, result, raised, list_calls, last_search>>

\* combined_context = "\n".join(context_parts); return
Combine ==
    /\ pc = "combine"
    /\ result' = [text |-> join(<<"\n">>, context_parts), sources |-> source_files]
    /\ pc' = "done"
    /\ UNCHANGED <<textvars, direct, downloads, provider, variant,
                   user_query, max_files, locals, raised,
                   list_calls, last_search, attempts>>

\* ------------------------------------------------------------------------
\* get_relevant_context of src/agent/drive_utils.py
\* ------------------------------------------------------------------------
\* filename extraction and the single search; re.search raises on None
AgentSearch(outcome) ==
    /\ pc = "agent_search"
    /\ IF user_query = NoneVal
       THEN /\ ExceptReturn
            /\ UNCHANGED <<relevant_files, list_calls, last_search>>
       ELSE LET terms == SearchTermsAgent(AgentSearchQuery(user_query))
                r == SearchResult(provider, terms, <<>>, max_files,
                                  OrderByModifiedTimeDesc, outcome)
            IN /\ list_calls' = Append(list_calls,
                                       [q |-> BuildPredicate(terms, <<>>),
                                        pageSize |-> max_files,
                                        orderBy |-> OrderByModifiedTimeDesc])
               /\ last_search' = [outcome |-> outcome, raised |-> r.raised,
                                  files |-> r.files]
               /\ IF r.raised
                  THEN /\ ExceptReturn
                       /\ UNCHANGED relevant_files
                  ELSE /\ relevant_files' = r.files
                       /\ raised' = FALSE
                       /\ IF r.files = <<>>
                          THEN pc' = "done" /\ result' = EmptyContext
                          ELSE pc' = "agent_rank" /\ result' = result
    /\ UNCHANGED <<textvars, direct, downloads, provider, variant,
                   user_query, max_files, potential_filename,
                   keywords, idx, context_parts, source_files,
                   successful_extractions, attempts>>

\* files.sort(key=calculate_relevance, reverse=True)
AgentRank ==
    /\ pc = "agent_rank"
    /\ relevant_files' = RankByRelevance(relevant_files, user_query)
    /\ context_parts' = <<>>
    /\ source_files' = <<>>
    /\ successful_extractions' = 0
    /\ idx' = 1
    /\ pc' = "agent_loop"
    /\ UNCHANGED <<textvars, direct, downloads, provider, variant,
                   user_query, max_files, potential_filename,
                   keywords, result, raised, list_calls, last_search, attempts>>

\* the rest of one iteration, for the candidate and what its extraction gave
AgentExtractStepWith(candidates, file_info, content) ==
    LET usable == IsUsable(content)
        more == NextIndex(idx, usable) <= Len(candidates)
    IN /\ context_parts' = IF usable
                           THEN Append(context_parts, SectionAgent(file_info, content))
                           ELSE context_parts
       /\ source_files' = IF usable
                          THEN Append(source_files, SourceAgent(file_info))
                          ELSE source_files
       /\ successful_extractions' =
             IF usable THEN successful_extractions + 1 ELSE successful_extractions
       /\ IF LimitReached(successful_extractions') \/ ~more
          THEN idx' = idx /\ pc' = "agent_combine"
          ELSE idx' = NextIndex(idx, usable) /\ pc' = "agent_loop"

\* one iteration of: for file_info in files[:max_files]
AgentExtractStep ==
    /\ pc = "agent_loop"
    /\ LET candidates == Take(relevant_files, max_files)
           file_info == candidates[idx]
       IN /\ EnterGetFileContent(file_info)
          /\ AgentExtractStepWith(candidates, file_info,
                                  get_file_content(provider, file_info.id, file_info.mimeType))
    /\ UNCHANGED <<textvars, direct, provider, variant, user_query,
                   max_files, potential_filename,
                   keywords, relevant_files, result, raised, list_calls, last_search>>

AgentCombine ==
    /\ pc = "agent_combine"
    /\ result' = [text |-> join(<<"\n">>, context_parts), sources |-> source_files]
    /\ pc' = "done"
    /\ UNCHANGED <<textvars, direct, downloads, provider, variant,
                   user_query, max_files, locals, raised,
                   list_calls, last_search, attempts>>

\* ------------------------------------------------------------------------
Next ==
    \/ \E v \in Variants, q \in Queries, n \in MaxFilesArgs : Call(v, q, n)
    \/ ExtractFilename
    \/ \E outcome \in RemoteOutcomes : SearchByFilename(outcome)
    \/ \E outcome \in RemoteOutcomes : SearchByWords(outcome)
    \/ \E outcome \in RemoteOutcomes : SearchByKeywords(outcome)
    \/ \E outcome \in RemoteOutcomes : SearchAll(outcome)
    \/ NoFilesReturn
    \/ Rank
    \/ ExtractStep
    \/ Combine
    \/ \E outcome \in RemoteOutcomes : AgentSearch(outcome)
    \/ AgentRank
    \/ AgentExtractStep
    \/ AgentCombine
    \/ PipelineException
    \/ \E i \in 1..MaxDriveFiles : GetFileContent(i)
    \/ Return

Spec == Init /\ [][Next]_vars

\* the same program on Drives that hold long files
LongInit ==
    /\ provider \in LongDrives
    /\ Idle
    /\ NoText

LongSpec == LongInit /\ [][Next]_vars

TypeOK ==
    /\ pc \in {"idle", "extract_filename", "filename_search", "words_search",
               "keyword_search", "all_search", "no_files", "rank", "loop",
               "combine", "agent_search", "agent_rank", "agent_loop",
               "agent_combine", "done", "content_done"}
    /\ variant \in Variants
    /\ successful_extractions \in 0..MaxExtractions
    /\ raised \in BOOLEAN


\* ------------------------------------------------------------------------
\* The text functions of FileProcessor on their own
\* ------------------------------------------------------------------------
\* most pieces a text is made of
MaxTextPieces == 3

\* the pieces: a word, a space, sentence ends, a paragraph break, a line
\* end with a carriage return, characters clean_text removes between a
\* vertical tab and a tab and between dots, and a word longer than the room
\* the sentence loop leaves
TextPieces == <<
    <<"a","a","a","a">>,
    <<" ">>,
    <<".">>,
    <<"!","?">>,
    <<"\n","\n">>,
    <<"\r","\n">>,
    <<"","{","\t">>,
    <<".",".","{",".",".">>,
    Filler(58) >>

\* the texts of up to n pieces
RECURSIVE TextsOf(_)
TextsOf(n) ==
    IF n = 0 THEN {<<>>}
    ELSE LET shorter == TextsOf(n - 1)
         IN shorter \cup {t \o TextPieces[i] : t \in shorter, i \in 1..Len(TextPieces)}

Texts == TextsOf(MaxTextPieces)

\* the max_length values: nothing fits, one short word fits, the sentence
\* loop has room (max_length - 50 > 0), the section loop has room
\* (max_length - 100 > 0)
MaxLengths == {0, 5, 60, 110}

\* the text the functions have made so far
CurrentText == history[Len(history)]

TextInit ==
    /\ provider = <<>>
    /\ Idle
    /\ history \in {<<t>> : t \in Texts}
    /\ applied = <<>>
    /\ max_length_arg \in MaxLengths
    /\ NoAux
    /\ pdf_pages = <<>>

\* self.file_processor.truncate_content(text, max_length)
Truncate ==
    /\ history # <<>>
    /\ pdf_pages = <<>>
    /\ Len(applied) < 2
    /\ history' = Append(history, truncate_content(CurrentText, max_length_arg))
    /\ applied' = Append(applied, "truncate_content")
    /\ UNCHANGED <<max_length_arg, pdf_pages, auxvars, provider, pc, variant, user_query,
                   max_files, locals, result, raised, list_calls, last_search,
                   attempts, downloads, direct>>

\* self.file_processor.clean_text(text)
Clean ==
    /\ history # <<>>
    /\ pdf_pages = <<>>
    /\ Len(applied) < 2
    /\ history' = Append(history, clean_text(CurrentText))
    /\ applied' = Append(applied, "clean_text")
    /\ UNCHANGED <<max_length_arg, pdf_pages, auxvars, provider, pc, variant, user_query,
                   max_files, locals, result, raised, list_calls, last_search,
                   attempts, downloads, direct>>

TextNext == Truncate \/ Clean

TextSpec == TextInit /\ [][TextNext]_vars

\* ------------------------------------------------------------------------
\* _extract_pdf_content on its own
\* ------------------------------------------------------------------------
\* most pages of a PDF
MaxPages == 3

\* what extract_text does on a page: text, text that clean_text changes,
\* text that clean_text empties, blank text, no text, None, an exception,
\* text that reads like a page marker, text that reads like one once
\* clean_text has removed a character, text that makes one with the markers
\* next to it, and text that names a page without reading like a marker
PageResults == {
    PdfPage(FALSE, <<"a","b">>),
    PdfPage(FALSE, <<"c"," ","{","\n","d">>),
    PdfPage(FALSE, <<"{">>),
    PdfPage(FALSE, <<" ","","\n">>),
    PdfPage(FALSE, <<>>),
    PdfPage(FALSE, NoneVal),
    PdfPage(TRUE, NoneVal),
    PdfPage(FALSE, <<"-","-","-"," ","P","a","g","e"," ","2"," ","-","-","-">>),
    PdfPage(FALSE, <<"-","-","-"," ","P","a","{","g","e"," ","2"," ","-","-","-">>),
    PdfPage(FALSE, <<"P","a","g","e"," ","2">>),
    PdfPage(FALSE, <<"P","a","g","e"," ","2"," ","o","f"," ","3">>) }

RECURSIVE PageListsOf(_)
PageListsOf(n) ==
    IF n = 0 THEN {<<>>}
    ELSE LET shorter == PageListsOf(n - 1)
         IN shorter \cup {Append(ps, p) : ps \in shorter, p \in PageResults}

PageLists == PageListsOf(MaxPages) \ {<<>>}

PdfInit ==
    /\ provider = <<>>
    /\ Idle
    /\ history = <<>>
    /\ applied = <<>>
    /\ max_length_arg = 0
    /\ NoAux
    /\ pdf_pages \in PageLists

\* self._extract_pdf_content(file_id) on a PDF that downloads and opens
ExtractPdf ==
    /\ pdf_pages # <<>>
    /\ applied = <<>>
    /\ history' = <<_extract_pdf_content(PdfMedia(pdf_pages))>>
    /\ applied' = <<"_extract_pdf_content">>
    /\ UNCHANGED <<max_length_arg, pdf_pages, auxvars, provider, pc, variant, user_query,
                   max_files, locals, result, raised, list_calls, last_search,
                   attempts, downloads, direct>>

PdfNext == ExtractPdf

PdfSpec == PdfInit /\ [][PdfNext]_vars


\* ------------------------------------------------------------------------
\* search_files on its own: the q it sends to files().list
\* ------------------------------------------------------------------------
\* a format of the registry as the characters of its key
mime_chars(mime_type) ==
    CASE mime_type = MimeGoogleDoc -> <<"a","p","p","l","i","c","a","t","i","o","n","/","v","n","d",".","g","o","o","g","l","e","-","a","p","p","s",".","d","o","c","u","m","e","n","t">>
      [] mime_type = MimeText -> <<"t","e","x","t","/","p","l","a","i","n">>
      [] mime_type = MimeCsv -> <<"t","e","x","t","/","c","s","v">>
      [] mime_type = MimePdf -> <<"a","p","p","l","i","c","a","t","i","o","n","/","p","d","f">>
      [] mime_type = MimeMarkdown -> <<"t","e","x","t","/","m","a","r","k","d","o","w","n">>
      [] mime_type = MimeWord ->
            <<"a","p","p","l","i","c","a","t","i","o","n","/","v","n","d",".","o","p","e","n","x","m","l","f","o","r","m","a","t","s","-","o","f","f","i","c","e","d","o","c","u","m","e","n","t",".","w","o","r","d","p","r","o","c","e","s","s","i","n","g","m","l",".","d","o","c","u","m","e","n","t">>
      [] OTHER -> <<"a","p","p","l","i","c","a","t","i","o","n","/","o","c","t","e","t","-","s","t","r","e","a","m">>

\* the terms that the running variant derives from the query
SearchTerms(v, query) ==
    IF v = "agent" THEN SearchTermsAgent(query) ELSE SearchTermsUtils(query)

\* f"({' or '.join(name_conditions)})"
NameClause(terms) ==
    <<"(">> \o join(<<" ","o","r"," ">>,
                  [k \in 1..Len(terms) |-> <<"n","a","m","e"," ","c","o","n","t","a","i","n","s"," ","'">> \o terms[k] \o <<"'">>])
    \o <<")">>

\* f"({' or '.join(type_queries)})"
TypeClause(mime_types) ==
    <<"(">> \o join(<<" ","o","r"," ">>,
                  [k \in 1..Len(mime_types) |->
                      <<"m","i","m","e","T","y","p","e","=","'">> \o mime_chars(mime_types[k]) \o <<"'">>])
    \o <<")">>

\* search_query_parts before the join
search_query_parts(v, query, file_types) ==
    LET terms == SearchTerms(v, query)
        types == IF file_types = NoneVal \/ file_types = <<>>
                 THEN supported_mime_types ELSE file_types
    IN (IF terms # <<>> THEN <<NameClause(terms)>> ELSE <<>>)
       \o <<TypeClause(types)>>
       \o <<<<"t","r","a","s","h","e","d","=","f","a","l","s","e">>>>

\* a query that leaves the trashed files in when the caller names the formats
final_queryTrashedForTypes(v, query, file_types) ==
    LET parts == search_query_parts(v, query, file_types)
    IN IF file_types = NoneVal \/ file_types = <<>>
       THEN join(<<" ","a","n","d"," ">>, parts)
       ELSE join(<<" ","a","n","d"," ">>, SubSeq(parts, 1, Len(parts) - 1))

\* final_query
final_query(v, query, file_types) ==
    LET parts == search_query_parts(v, query, file_types)
    IN IF v = "agent" \/ Len(parts) > 1
       THEN join(<<" ","a","n","d"," ">>, parts)
       ELSE TypeClause(supported_mime_types) \o <<" ","a","n","d"," ","t","r","a","s","h","e","d","=","f","a","l","s","e">>

\* most pieces of a query given to search_files
MaxQueryPieces == 2

\* pieces of queries: words of 2 and of more characters, a word with a
\* quote, one with a backslash, one with a hyphen and an underscore, an
\* extension, blanks, and the characters that close a quoted literal
QueryPieces == <<<<"c","v">>, <<"n","o","t","e","s">>, <<"o","'","n","e","i","l">>, <<"a","\\","b","c">>, <<"x","-","y","_","z">>, <<".","P","D","F">>,
                 <<" ">>, <<"\n">>, <<"'"," ","o","r"," ","n","a","m","e"," ","c","o","n","t","a","i","n","s"," ","'">>, <<"\\","'">>>>

RECURSIVE QueriesOf(_)
QueriesOf(n) ==
    IF n = 0 THEN {<<>>}
    ELSE LET shorter == QueriesOf(n - 1)
         IN shorter \cup {q \o QueryPieces[k] : q \in shorter, k \in 1..Len(QueryPieces)}

SearchQueries == QueriesOf(MaxQueryPieces) \cup {NoneVal}

\* file_types: absent, empty, one format, two formats
FileTypesArgs == {NoneVal, <<>>, <<MimePdf>>, <<MimeText, MimeCsv>>}

SearchInit ==
    /\ provider = <<>>
    /\ Idle
    /\ NoText

\* search_files(query, file_types) of variant v, up to the listing call
SearchFiles(v, query, file_types) ==
    /\ sent_query = NoneVal
    /\ search_args' = [query |-> query, file_types |-> file_types]
    /\ sent_query' = final_query(v, query, file_types)
    /\ variant' = v
    /\ UNCHANGED <<history, applied, max_length_arg, pdf_pages, provider, pc,
                   user_query, max_files, locals, result, raised, list_calls,
                   last_search, attempts, downloads, direct, keywordvars,
                   orchvars, loopvars>>

SearchNext ==
    \E v \in Variants, query \in SearchQueries, file_types \in FileTypesArgs :
        SearchFiles(v, query, file_types)

SearchSpec == SearchInit /\ [][SearchNext]_vars

\* ------------------------------------------------------------------------
\* extract_keywords called on its own  (src/utils/file_processing.py)
\* ------------------------------------------------------------------------
MaxKeywordWords == 3

MaxKeywordsArg == 2

\* words of texts: a stop word, a word of the professional vocabulary, a
\* plain short word with and without a capital, another plain short word, a
\* long word, a word that begins with "cv"
KeywordWords == <<<<"t","h","e">>, <<"w","o","r","k">>, <<"d","o","g">>, <<"D","o","g">>, <<"c","a","t">>, <<"m","a","n","a","g","e","r">>, <<"c","v","x">>>>

RECURSIVE KeywordTextsOf(_)
KeywordTextsOf(n) ==
    IF n = 0 THEN {<<>>}
    ELSE LET shorter == KeywordTextsOf(n - 1)
         IN shorter \cup {IF t = <<>> THEN KeywordWords[k]
                                      ELSE t \o <<" ">> \o KeywordWords[k] :
                             t \in shorter, k \in 1..Len(KeywordWords)}

KeywordTexts == KeywordTextsOf(MaxKeywordWords) \cup {NoneVal}

KeywordInit ==
    /\ provider = <<>>
    /\ Idle
    /\ NoText

\* self.file_processor.extract_keywords(text, max_keywords)
ExtractKeywords(text, max_keywords) ==
    /\ keyword_args = <<>>
    /\ keyword_args' = <<[text |-> text, max_keywords |-> max_keywords]>>
    /\ keyword_list' = extract_keywords(text, max_keywords)
    /\ UNCHANGED <<history, applied, max_length_arg, pdf_pages, provider, pc,
                   variant, user_query, max_files, locals, result, raised,
                   list_calls, last_search, attempts, downloads, direct,
                   searchvars, orchvars, loopvars>>

KeywordNext ==
    \E text \in KeywordTexts, max_keywords \in 0..MaxKeywordsArg :
        ExtractKeywords(text, max_keywords)

KeywordSpec == KeywordInit /\ [][KeywordNext]_vars

\* ------------------------------------------------------------------------
\* ChatGPTAgent  (src/agent/chat_agent.py)
\* ------------------------------------------------------------------------
\* xs[-n:] for n > 0
LastN(xs, n) == IF Len(xs) <= n THEN xs ELSE SubSeq(xs, Len(xs) - n + 1, Len(xs))

\* self.model
DefaultModel == <<"o","p","e","n","a","i","/","g","p","t","-","3",".","5","-","t","u","r","b","o">>

base_prompt ==
    <<"Y","o","u"," ","a","r","e"," ","a","n"," ","i","n","t","e","l","l","i","g","e","n","t"," ","A","I"," ","a","s","s","i","s","t","a","n","t"," ","w","i","t","h"," ","a","c","c","e","s","s"," ","t","o"," ","t","h","e"," ","u","s","e","r","'","s"," ","G","o","o","g","l","e"," ","D","r","i","v","e"," ","f","i","l","e","s",".","\n","\n","Y","o","u","r"," ","m","a","i","n"," ","c","a","p","a","b","i","l","i","t","i","e","s",":","\n","-"," ","P","r","o","v","i","d","e"," ","h","e","l","p","f","u","l",","," ","a","c","c","u","r","a","t","e"," ","r","e","s","p","o","n","s","e","s"," ","u","s","i","n","g"," ","b","o","t","h"," ","g","e","n","e","r","a","l"," ","k","n","o","w","l","e","d","g","e"," ","a","n","d"," ","s","p","e","c","i","f","i","c"," ","f","i","l","e"," ","c","o","n","t","e","n","t","\n","-"," ","W","h","e","n"," ","f","i","l","e"," ","c","o","n","t","e","n","t"," ","i","s"," ","p","r","o","v","i","d","e","d",","," ","u","s","e"," ","i","t"," ","a","s"," ","t","h","e"," ","p","r","i","m","a","r","y"," ","s","o","u","r","c","e"," ","f","o","r"," ","a","n","s","w","e","r","s","\n","-"," ","A","l","w","a","y","s"," ","m","e","n","t","i","o","n"," ","w","h","i","c","h"," ","s","p","e","c","i","f","i","c"," ","f","i","l","e","s"," ","y","o","u","'","r","e"," ","r","e","f","e","r","e","n","c","i","n","g"," ","w","h","e","n"," ","u","s","i","n","g"," ","t","h","e","i","r"," ","c","o","n","t","e","n","t","\n","-"," ","B","e"," ","t","h","o","r","o","u","g","h"," ","a","n","d"," ","d","e","t","a","i","l","e","d"," ","i","n"," ","y","o","u","r"," ","r","e","s","p","o","n","s","e","s","\n","-"," ","I","f"," ","n","o"," ","r","e","l","e","v","a","n","t"," ","f","i","l","e","s"," ","a","r","e"," ","f","o","u","n","d",","," ","c","l","e","a","r","l","y"," ","s","t","a","t","e"," ","t","h","i","s"," ","a","n","d"," ","p","r","o","v","i","d","e"," ","g","e","n","e","r","a","l"," ","k","n","o","w","l","e","d","g","e","\n","\n","I","M","P","O","R","T","A","N","T",":"," ","W","h","e","n"," ","p","r","o","v","i","d","e","d"," ","w","i","t","h"," ","f","i","l","e"," ","c","o","n","t","e","n","t"," ","b","e","l","o","w",","," ","p","r","i","o","r","i","t","i","z","e"," ","u","s","i","n","g"," ","t","h","a","t"," ","i","n","f","o","r","m","a","t","i","o","n"," ","i","n"," ","y","o","u","r"," ","r","e","s","p","o","n","s","e",".">>

context_opening ==
    <<"\n","\n","=","=","=","="," ","C","O","N","T","E","N","T"," ","F","R","O","M"," ","U","S","E","R","'","S"," ","G","O","O","G","L","E"," ","D","R","I","V","E"," ","F","I","L","E","S"," ","=","=","=","=","\n">>

context_closing ==
    <<"\n","=","=","=","="," ","E","N","D"," ","O","F"," ","D","R","I","V","E"," ","C","O","N","T","E","N","T"," ","=","=","=","=","\n","\n","C","R","I","T","I","C","A","L"," ","I","N","S","T","R","U","C","T","I","O","N",":"," ","T","h","e"," ","c","o","n","t","e","n","t"," ","a","b","o","v","e"," ","i","s"," ","f","r","o","m"," ","t","h","e"," ","u","s","e","r","'","s"," ","a","c","t","u","a","l"," ","G","o","o","g","l","e"," ","D","r","i","v","e"," ","f","i","l","e","s","."," ","U","s","e"," ","t","h","i","s"," ","i","n","f","o","r","m","a","t","i","o","n"," ","t","o"," ","p","r","o","v","i","d","e"," ","a","c","c","u","r","a","t","e",","," ","d","e","t","a","i","l","e","d"," ","r","e","s","p","o","n","s","e","s","."," ","A","l","w","a","y","s"," ","r","e","f","e","r","e","n","c","e"," ","t","h","e"," ","s","p","e","c","i","f","i","c"," ","f","i","l","e"," ","n","a","m","e","s"," ","w","h","e","n"," ","u","s","i","n","g"," ","t","h","e","i","r"," ","c","o","n","t","e","n","t"," ","i","n"," ","y","o","u","r"," ","a","n","s","w","e","r",".">>

no_context_note ==
    <<"\n","\n","N","o","t","e",":"," ","N","o"," ","r","e","l","e","v","a","n","t"," ","f","i","l","e"," ","c","o","n","t","e","n","t"," ","w","a","s"," ","f","o","u","n","d"," ","i","n"," ","t","h","e"," ","u","s","e","r","'","s"," ","G","o","o","g","l","e"," ","D","r","i","v","e"," ","f","o","r"," ","t","h","i","s"," ","q","u","e","r","y","."," ","I","'","l","l"," ","p","r","o","v","i","d","e"," ","a"," ","r","e","s","p","o","n","s","e"," ","b","a","s","e","d"," ","o","n"," ","g","e","n","e","r","a","l"," ","k","n","o","w","l","e","d","g","e",".">>

\* text and text.strip()
HasText(text) == Truthy(text) /\ strip(text) # <<>>

\* create_system_prompt(context)
create_system_prompt(context) ==
    IF HasText(context)
    THEN base_prompt \o context_opening \o context \o context_closing
    ELSE base_prompt \o no_context_note

\* for msg in conversation_history[-6:]
RequestHistoryLength == 6

\* the messages list of generate_response
request_messages(user_input, context, passed_history) ==
    LET recent == LastN(passed_history, RequestHistoryLength)
        kept == SelectSeqP(recent, LAMBDA msg : msg.role \in {"user", "assistant"})
    IN <<[role |-> "system", content |-> create_system_prompt(context)]>>
       \o [i \in 1..Len(kept) |-> [role |-> kept[i].role, content |-> kept[i].content]]
       \o <<[role |-> "user", content |-> user_input]>>

\* response.usage of a completion that came without usage figures
NoUsage == [kind |-> "None"]

\* response.usage.total_tokens on None
NoTotalTokens == <<"'","N","o","n","e","T","y","p","e","'"," ","o","b","j","e","c","t"," ","h","a","s"," ","n","o"," ","a","t","t","r","i","b","u","t","e"," ","'","t","o","t","a","l","_","t","o","k","e","n","s","'">>

\* getattr(response.usage, name, None) for the three figures
tokens_used(usage) ==
    IF usage.kind = "None"
    THEN [prompt |-> NoneVal, completion |-> NoneVal, total |-> NoneVal]
    ELSE [prompt |-> usage.prompt_tokens,
          completion |-> usage.completion_tokens,
          total |-> usage.total_tokens]

\* generate_response(user_input, context, conversation_history), given what
\* self.client.chat.completions.create did.  Whatever is raised inside,
\* the read of response.usage.total_tokens for the log line included,
\* leaves as Exception("ChatGPT API Error: ...").
generate_response(user_input, context, passed_history, completion) ==
    IF completion.raised
    THEN [raised |-> TRUE,
          message |-> <<"C","h","a","t","G","P","T"," ","A","P","I"," ","E","r","r","o","r",":"," ">> \o completion.text]
    ELSE IF completion.usage.kind = "None"
    THEN [raised |-> TRUE,
          message |-> <<"C","h","a","t","G","P","T"," ","A","P","I"," ","E","r","r","o","r",":"," ">> \o NoTotalTokens]
    ELSE [raised |-> FALSE,
          response |-> completion.text,
          model |-> DefaultModel,
          tokens_used |-> tokens_used(completion.usage),
          context_used |-> context # NoneVal /\ Len(strip(context)) > 0,
          finish_reason |-> completion.finish_reason]

\* ------------------------------------------------------------------------
\* IntelligentOrchestrator  (src/agent/orchestrator.py)
\* ------------------------------------------------------------------------
\* self.conversation_history[-10:]
PassedHistoryLength == 10

\* len(self.conversation_history) > 20
MaxHistoryLength == 20

\* the answer appended before the question
AppendExchangeAnswerFirst(messages, user_input, response) ==
    messages \o <<[role |-> "assistant", content |-> response],
                  [role |-> "user", content |-> user_input]>>

\* the two appends after a response
AppendExchange(messages, user_input, response) ==
    messages \o <<[role |-> "user", content |-> user_input],
                  [role |-> "assistant", content |-> response]>>

\* a history that is never cut
KeepRecentAll(messages) == messages

\* if len(self.conversation_history) > 20: keep [-20:]
KeepRecent(messages) ==
    IF Len(messages) > MaxHistoryLength
    THEN LastN(messages, MaxHistoryLength)
    ELSE messages

\* the record of the outer except handler
DegradedResponse(message) ==
    [response |-> <<"I"," ","a","p","o","l","o","g","i","z","e",","," ","b","u","t"," ","I"," ","e","n","c","o","u","n","t","e","r","e","d"," ","a","n"," ","e","r","r","o","r"," ","w","h","i","l","e"," ","p","r","o","c","e","s","s","i","n","g"," ","y","o","u","r"," ","r","e","q","u","e","s","t",":"," ">>
                  \o message,
     context_used |-> FALSE,
     sources |-> <<>>,
     model_info |-> <<>>,
     search_performed |-> FALSE,
     drive_available |-> FALSE,
     error |-> message]

\* an exception that passes the handler
OuterExceptReraise(message) == [propagated |-> TRUE, returned |-> <<>>]

\* except Exception as e of process_query
OuterExcept(message) ==
    [propagated |-> FALSE, returned |-> <<DegradedResponse(message)>>]

\* user_input[:100] on None
NoneSubscript == <<"'","N","o","n","e","T","y","p","e","'"," ","o","b","j","e","c","t"," ","i","s"," ","n","o","t"," ","s","u","b","s","c","r","i","p","t","a","b","l","e">>

\* ------------------------------------------------------------------------
\* Inputs of the orchestrator
\* ------------------------------------------------------------------------
\* calls of process_query on one orchestrator
MaxCalls == 12

\* what the user types for the n-th exchange, or None
UserInputs(n) == {<<"q","u","e","s","t","i","o","n"," ">> \o str_int(n), NoneVal}

\* what get_relevant_context does: raises, finds nothing, finds one file
RetrievalOutcomes ==
    {[raised |-> TRUE, text |-> <<>>, sources |-> <<>>],
     [raised |-> FALSE, text |-> <<>>, sources |-> <<>>],
     [raised |-> FALSE,
      text |-> SectionUtils(Enrich(FilePool[1]), Filler(60)),
      sources |-> <<SourceUtils(Enrich(FilePool[1]))>>]}

\* what the completion request for the n-th exchange does: raises, answers
\* without usage figures, or answers with them
Completions(n) ==
    {[raised |-> TRUE, text |-> <<"C","o","n","n","e","c","t","i","o","n"," ","e","r","r","o","r",".">>,
      finish_reason |-> NoneVal, usage |-> NoUsage],
     [raised |-> FALSE, text |-> <<"a","n","s","w","e","r"," ">> \o str_int(n),
      finish_reason |-> <<"s","t","o","p">>, usage |-> NoUsage],
     [raised |-> FALSE, text |-> <<"a","n","s","w","e","r"," ">> \o str_int(n),
      finish_reason |-> <<"s","t","o","p">>,
      usage |-> [kind |-> "CompletionUsage", prompt_tokens |-> 12,
                 completion_tokens |-> 3, total_tokens |-> 15]]}

\* IntelligentOrchestrator(drive_service): with a retrieval object when a
\* service is given and its test listing succeeds
OrchInit ==
    /\ provider = <<>>
    /\ Idle
    /\ history = <<>>
    /\ applied = <<>>
    /\ max_length_arg = 0
    /\ pdf_pages = <<>>
    /\ search_args = NoSearchArgs
    /\ sent_query = NoneVal
    /\ keyword_args = <<>>
    /\ keyword_list = <<>>
    /\ NoDownload
    /\ drive_utils \in BOOLEAN
    /\ conversation_history = <<>>
    /\ appended = <<>>
    /\ call_count = 0
    /\ retrieved = <<>>
    /\ llm_calls = <<>>
    /\ final_response = <<>>
    /\ propagated = FALSE

\* process_query after user_input[:100] has passed: retrieval, request,
\* history update and the final record
AnswerQuery(user_input, use_conversation_history, retrieval, completion) ==
    LET found == drive_utils /\ ~retrieval.raised
        context_text == IF found THEN retrieval.text ELSE <<>>
        source_files_found == IF found THEN retrieval.sources ELSE <<>>
        context == IF HasText(context_text) THEN context_text ELSE NoneVal
        passed_history == IF use_conversation_history
                          THEN LastN(conversation_history, PassedHistoryLength)
                          ELSE <<>>
        response_data == generate_response(user_input, context, passed_history, completion)
    IN /\ retrieved' = IF drive_utils THEN <<retrieval>> ELSE <<>>
       /\ llm_calls' = <<[user_input |-> user_input,
                          context |-> context,
                          conversation_history |-> passed_history,
                          messages |-> request_messages(user_input, context, passed_history),
                          raised |-> response_data.raised]>>
       /\ IF response_data.raised
          THEN /\ final_response' = OuterExcept(response_data.message).returned
               /\ propagated' = OuterExcept(response_data.message).propagated
               /\ UNCHANGED <<conversation_history, appended>>
          ELSE /\ conversation_history' =
                     KeepRecent(AppendExchange(conversation_history, user_input,
                                               response_data.response))
               /\ appended' = AppendExchange(appended, user_input, response_data.response)
               /\ final_response' =
                     <<[response |-> response_data.response,
                        context_used |-> HasText(context_text),
                        sources |-> source_files_found,
                        model_info |-> [model |-> response_data.model,
                                        tokens_used |-> response_data.tokens_used,
                                        finish_reason |-> response_data.finish_reason],
                        search_performed |-> drive_utils,
                        drive_available |-> drive_utils]>>
               /\ propagated' = FALSE

\* process_query(user_input, use_conversation_history=...)
ProcessQuery(user_input, use_conversation_history, retrieval, completion) ==
    /\ call_count < MaxCalls
    /\ call_count' = call_count + 1
    /\ IF user_input = NoneVal
       THEN /\ final_response' = OuterExcept(NoneSubscript).returned
            /\ propagated' = OuterExcept(NoneSubscript).propagated
            /\ retrieved' = <<>>
            /\ llm_calls' = <<>>
            /\ UNCHANGED <<conversation_history, appended>>
       ELSE AnswerQuery(user_input, use_conversation_history, retrieval, completion)
    /\ UNCHANGED <<history, applied, max_length_arg, pdf_pages, provider, pc,
                   variant, user_query, max_files, locals, result, raised,
                   list_calls, last_search, attempts, downloads, direct,
                   searchvars, keywordvars, loopvars, drive_utils>>

\* the number of the exchange that the next answered call appends
NextExchange == Len(appended) \div 2 + 1

OrchNext ==
    \E user_input \in UserInputs(NextExchange),
       use_conversation_history \in BOOLEAN,
       retrieval \in RetrievalOutcomes,
       completion \in Completions(NextExchange) :
        ProcessQuery(user_input, use_conversation_history, retrieval, completion)

OrchSpec == OrchInit /\ [][OrchNext]_vars

\* ------------------------------------------------------------------------
\* get_relevant_context with the download loop followed chunk by chunk
\*   done = False
\*   while not done: status, done = downloader.next_chunk()
\* ------------------------------------------------------------------------
\* chunks counted before the count stops growing
MaxChunks == 2

\* the candidate the extraction loop is at
CurrentCandidate ==
    IF variant = "agent" THEN Take(relevant_files, max_files)[idx] ELSE relevant_files[idx]

InLoop == pc \in {"loop", "agent_loop"}

\* get_file_content starts a download for the candidate
NeedsDownload ==
    MediaRequests(CurrentCandidate.id, CurrentCandidate.mimeType) # <<>>

\* the download of the candidate raises instead of reporting done
DownloadRaises ==
    \E i \in 1..Len(provider) :
        /\ provider[i].id = CurrentCandidate.id
        /\ provider[i].media.kind = "unavailable"

\* a loop that never looks at done
KeepsDownloadingAlways(done) == TRUE

\* while not done
KeepsDownloading(done) == ~done

\* get_file_content is entered for the candidate;
\* request = ...get_media(fileId=file_id); done = False
BeginDownload ==
    /\ InLoop
    /\ download_pc = "none"
    /\ NeedsDownload
    /\ EnterGetFileContent(CurrentCandidate)
    /\ download_pc' = "chunks"
    /\ chunks' = 0
    /\ UNCHANGED <<history, applied, max_length_arg, pdf_pages, searchvars,
                   keywordvars, orchvars, direct, provider, pc, variant,
                   user_query, max_files, locals, result, raised, list_calls,
                   last_search>>

\* next_chunk() returns (status, done): one more chunk, the last one or not
NextChunk(done) ==
    /\ InLoop
    /\ download_pc = "chunks"
    /\ done => ~DownloadRaises
    /\ IF KeepsDownloading(done)
       THEN /\ download_pc' = "chunks"
            /\ chunks' = IF chunks < MaxChunks THEN chunks + 1 ELSE chunks
       ELSE /\ download_pc' = "fetched"
            /\ chunks' = 0
    /\ UNCHANGED <<history, applied, max_length_arg, pdf_pages, searchvars,
                   keywordvars, orchvars, direct, provider, pc, variant,
                   user_query, max_files, locals, result, raised, list_calls,
                   last_search, attempts, downloads>>

\* next_chunk() raises: the extractor's handler returns None
ChunkRaises ==
    /\ InLoop
    /\ download_pc = "chunks"
    /\ DownloadRaises
    /\ download_pc' = "fetched"
    /\ chunks' = 0
    /\ UNCHANGED <<history, applied, max_length_arg, pdf_pages, searchvars,
                   keywordvars, orchvars, direct, provider, pc, variant,
                   user_query, max_files, locals, result, raised, list_calls,
                   last_search, attempts, downloads>>

\* the download of the candidate is over, or it needs none
Fetched == download_pc = "fetched" \/ (download_pc = "none" /\ ~NeedsDownload)

\* the rest of one iteration of the loop of src/utils/drive_utils.py, once
\* the download is over; a candidate that needs no download goes through
\* get_file_content in this step
FinishExtract ==
    /\ pc = "loop"
    /\ Fetched
    /\ LET file_info == relevant_files[idx]
       IN /\ IF download_pc = "fetched"
             THEN UNCHANGED <<attempts, downloads>>
             ELSE EnterGetFileContent(file_info)
          /\ ExtractStepWith(file_info,
                             get_file_content(provider, file_info.id, file_info.mimeType))
    /\ download_pc' = "none"
    /\ UNCHANGED <<history, applied, max_length_arg, pdf_pages, searchvars,
                   keywordvars, orchvars, chunks, direct, provider, variant,
                   user_query, max_files, potential_filename, keywords,
                   relevant_files, result, raised, list_calls, last_search>>

\* the rest of one iteration of the loop of src/agent/drive_utils.py
AgentFinishExtract ==
    /\ pc = "agent_loop"
    /\ Fetched
    /\ LET candidates == Take(relevant_files, max_files)
           file_info == candidates[idx]
       IN /\ IF download_pc = "fetched"
             THEN UNCHANGED <<attempts, downloads>>
             ELSE EnterGetFileContent(file_info)
          /\ AgentExtractStepWith(candidates, file_info,
                                  get_file_content(provider, file_info.id, file_info.mimeType))
    /\ download_pc' = "none"
    /\ UNCHANGED <<history, applied, max_length_arg, pdf_pages, searchvars,
                   keywordvars, orchvars, chunks, direct, provider, variant,
                   user_query, max_files, potential_filename, keywords,
                   relevant_files, result, raised, list_calls, last_search>>

\* an exception reaches the handler of get_relevant_context, whatever the
\* download loop was doing
LoopException ==
    /\ pc \notin {"idle", "done", "content_done"}
    /\ ExceptReturn
    /\ download_pc' = "none"
    /\ chunks' = 0
    /\ UNCHANGED <<history, applied, max_length_arg, pdf_pages, searchvars,
                   keywordvars, orchvars, direct, downloads, provider, variant,
                   user_query, max_files, locals, list_calls, last_search,
                   attempts>>

\* the statements of get_relevant_context outside the download loop
ProgramStep ==
    \/ ExtractFilename
    \/ \E outcome \in RemoteOutcomes : SearchByFilename(outcome)
    \/ \E outcome \in RemoteOutcomes : SearchByWords(outcome)
    \/ \E outcome \in RemoteOutcomes : SearchByKeywords(outcome)
    \/ \E outcome \in RemoteOutcomes : SearchAll(outcome)
    \/ NoFilesReturn
    \/ Rank
    \/ BeginDownload
    \/ FinishExtract
    \/ Combine
    \/ \E outcome \in RemoteOutcomes : AgentSearch(outcome)
    \/ AgentRank
    \/ AgentFinishExtract
    \/ AgentCombine

\* the download reports done, or raises
DownloadEnds == NextChunk(TRUE) \/ ChunkRaises

LiveNext ==
    \/ \E v \in Variants, q \in Queries, n \in MaxFilesArgs : Call(v, q, n)
    \/ ProgramStep
    \/ NextChunk(FALSE)
    \/ DownloadEnds
    \/ LoopException
    \/ Return

\* where the call stands: the statement, the candidate, the download
position == <<pc, idx, download_pc>>

ProgramCounters ==
    {"extract_filename", "filename_search", "words_search", "keyword_search",
     "all_search", "no_files", "rank", "loop", "combine", "agent_search",
     "agent_rank", "agent_loop", "agent_combine", "done"}

\* the call is not waiting for a chunk and moves on to another position;
\* in such a state a statement of ProgramStep is enabled, and every
\* statement it executes changes the position
Advance ==
    /\ pc \notin {"idle", "done", "content_done"}
    /\ download_pc # "chunks"
    /\ pc' \in ProgramCounters
    /\ idx' \in 1..(MaxDriveFiles + 1)
    /\ download_pc' \in {"none", "chunks", "fetched"}

\* a call that is not waiting for a chunk executes its next statement (a
\* listing call returns or raises), and a download that is under way
\* reports done or raises in the end
LiveSpec ==
    /\ Init
    /\ [][LiveNext]_vars
    /\ WF_position(Advance)
    /\ WF_vars(DownloadEnds)
\* ------------------------------------------------------------------------
\* Properties
\* ------------------------------------------------------------------------
\* the candidates the extraction loop iterates over
Candidates ==
    IF variant = "agent" THEN Take(relevant_files, max_files) ELSE relevant_files

\* the extraction loop has been entered by the current call
InOrPastLoop == pc \in {"loop", "combine", "agent_loop", "agent_combine", "done"}

\* what get_file_content yields for a candidate
ContentOf(file_info) == get_file_content(provider, file_info.id, file_info.mimeType)

\* what get_file_content yields for the file of the Drive with this id
ContentById(file_id) ==
    get_file_content(provider, file_id,
                     (CHOOSE x \in Range(provider) : x.id = file_id).mimeType)

\* the content has at least 51 characters
HasSubstance(content) == content # NoneVal /\ Len(content) >= 51

\* the section the running variant appends for a candidate
SectionOf(file_info) ==
    IF variant = "agent" THEN SectionAgent(file_info, ContentOf(file_info))
    ELSE SectionUtils(file_info, ContentOf(file_info))

\* the header the running variant puts before a candidate's content
HeaderOf(file_info) ==
    IF variant = "agent" THEN HeaderAgent(file_info) ELSE HeaderUtils(file_info)

\* files of the Drive a listing can return: supported format, not trashed
ListableFiles ==
    SelectSeqP(provider,
               LAMBDA f : f.mimeType \in Range(supported_mime_types) /\ ~f.trashed)

\* the search terms the current call derives from its query
DerivedTerms ==
    IF user_query = NoneVal THEN {}
    ELSE IF variant = "agent"
    THEN Range(SearchTermsAgent(AgentSearchQuery(user_query)))
    ELSE (IF Truthy(potential_filename)
          THEN Range(SearchTermsUtils(StripKnownExtensions(potential_filename)))
          ELSE {})
         \cup Range(SearchTermsUtils(join(<<" ">>, Take(keywords, 3))))

NameMatches(f) ==
    \E t \in DerivedTerms : Contains(lower(f.name), lower(t))

\* the call returned through its normal return statement
ReturnedNormally == pc = "done" /\ ~raised

\* C1: the source manifest never has more than 3 entries, in the loop and in
\* the returned pair, whatever the number of candidates and max_files
C1_SourcesAtMostThree ==
    /\ Len(source_files) <= 3
    /\ Len(result.sources) <= 3

C1_Witness ==
    /\ ReturnedNormally
    /\ Len(result.sources) = 3
    /\ Len(Candidates) > 3
    /\ max_files > 3

\* C2: a file whose extracted content is None or has fewer than 51 characters
\* is never a source and contributes no section: every source names a file
\* with at least 51 characters of content, and every section is the section
\* of such a file
C2_ShortContentNeverUsed ==
    /\ \A i \in 1..Len(source_files) :
          HasSubstance(ContentById(source_files[i].id))
    /\ \A i \in 1..Len(result.sources) :
          HasSubstance(ContentById(result.sources[i].id))
    /\ \A i \in 1..Len(context_parts) :
          \E f \in Range(relevant_files) :
              HasSubstance(ContentOf(f)) /\ context_parts[i] = SectionOf(f)
    /\ ReturnedNormally =>
          \A f \in Range(relevant_files) :
              ~HasSubstance(ContentOf(f)) =>
                  /\ \A i \in 1..Len(result.sources) : result.sources[i].id # f.id
                  /\ ~Contains(result.text, HeaderOf(f))

C2_Witness ==
    /\ ReturnedNormally
    /\ result.sources # <<>>
    /\ \E k \in 1..Len(attempts) :
          LET c == ContentById(attempts[k])
          IN c # NoneVal /\ Len(c) = 50

\* C3 as stated: when no file name of the Drive contains a search term
\* derived from the query, the call returns ("", [])
C3_NoMatchGivesEmpty ==
    (ReturnedNormally /\ \A f \in Range(provider) : ~NameMatches(f))
        => result = EmptyContext

\* C3 amended: the call returns ("", []) when the Drive holds no supported,
\* untrashed file; the src/agent variant also when the query yields a search
\* term and no supported, untrashed file name contains one
C3_NoListableGivesEmpty ==
    pc = "done" =>
        /\ ListableFiles = <<>> => result = EmptyContext
        /\ (/\ variant = "agent"
            /\ DerivedTerms # {}
            /\ \A f \in Range(ListableFiles) : ~NameMatches(f))
              => result = EmptyContext

C3_Witness ==
    /\ ReturnedNormally
    /\ provider # <<>>
    /\ ListableFiles = <<>>
    /\ last_search.outcome = "ok"
    /\ Len(list_calls) >= 2
    /\ result = EmptyContext

\* C4: a call that went through the except handler returns exactly ("", []);
\* sections accumulated before the exception are not returned
C4_ExceptionGivesEmpty ==
    (pc = "done" /\ raised) => result = EmptyContext

C4_Witness ==
    /\ pc = "done"
    /\ raised
    /\ context_parts # <<>>
    /\ source_files # <<>>
    /\ result = EmptyContext

\* C5: when the remote listing call fails with HttpError or another
\* exception, search_files returns the empty list and does not raise
C5_SearchFailureGivesEmptyList ==
    last_search.outcome \in {"HttpError", "Exception"} =>
        ~last_search.raised /\ last_search.files = <<>>

C5_Witness ==
    /\ last_search.outcome = "Exception"
    /\ ~last_search.raised
    /\ last_search.files = <<>>
    /\ ListableFiles # <<>>
    /\ pc \in {"keyword_search", "all_search"}

\* C6 as stated: one call issues at most one remote listing call
C6_AtMostOneListing == Len(list_calls) <= 1

\* C6 amended: one call of get_relevant_context issues at most four remote
\* listing calls in src/utils/drive_utils.py (filename, filename words,
\* keywords, unfiltered) and at most one in src/agent/drive_utils.py
C6_AtMostFourListings ==
    /\ Len(list_calls) <= 4
    /\ variant = "agent" => Len(list_calls) <= 1

C6_Witness ==
    /\ variant = "utils"
    /\ Len(list_calls) = 4
    /\ ReturnedNormally

\* C7 as stated: at most three calls of get_file_content per call, failed
\* and short extractions included
C7_AtMostThreeAttempts == Len(attempts) <= 3

\* C7 amended: each candidate is attempted at most once, in ranked order,
\* so at most max_files attempts are made; at most three of them yield more
\* than 50 characters, and failed or short extractions do not count against
\* that limit
C7_AttemptsBoundedByCandidates ==
    /\ Len(attempts) <= max_files
    /\ Len(attempts) <= Len(Candidates)
    /\ \A k \in 1..Len(attempts) : attempts[k] = Candidates[k].id
    /\ \A j, k \in 1..Len(attempts) : attempts[j] = attempts[k] => j = k
    /\ Cardinality({k \in 1..Len(attempts) :
                        IsUsable(ContentOf(Candidates[k]))}) <= MaxExtractions

C7_Witness ==
    /\ ReturnedNormally
    /\ Len(attempts) > 3
    /\ Len(result.sources) < 3

\* positions of the candidates that extract to more than 50 characters
UsablePositions == {k \in 1..Len(Candidates) : IsUsable(ContentOf(Candidates[k]))}

\* position of the third such candidate
ThirdUsable ==
    CHOOSE k \in UsablePositions :
        Cardinality({j \in UsablePositions : j <= k}) = MaxExtractions

\* exactly 3 sources, and the attempts end with the third successful candidate
ThreeSourcesThenStop ==
    /\ Len(result.sources) = 3
    /\ Len(attempts) = ThirdUsable
    /\ \A k \in 1..Len(attempts) : attempts[k] = Candidates[k].id

\* C8 as stated: with at least three candidates that extract to more than 50
\* characters the call returns exactly 3 sources and attempts no candidate
\* after the third successful one
C8_ThreeUsableGiveThreeSources ==
    (ReturnedNormally /\ Cardinality(UsablePositions) >= MaxExtractions)
        => ThreeSourcesThenStop

\* a successfully extracted high-confidence match ranked before the third
\* successful candidate (src/utils only)
EarlyHighMatch ==
    /\ variant = "utils"
    /\ Truthy(potential_filename)
    /\ \E k \in UsablePositions :
          /\ k < ThirdUsable
          /\ IsHighMatch(lower(Candidates[k].name), lower(potential_filename))

\* C8 amended: the same, for a call that returns normally and in which no
\* successfully extracted high-confidence match is ranked before the third
\* successful candidate
C8_ThreeSourcesUnlessHighMatch ==
    (/\ ReturnedNormally
     /\ Cardinality(UsablePositions) >= MaxExtractions
     /\ ~EarlyHighMatch)
        => ThreeSourcesThenStop

C8_Witness ==
    /\ ReturnedNormally
    /\ Cardinality(UsablePositions) > MaxExtractions
    /\ ~EarlyHighMatch
    /\ Len(result.sources) = 3
    /\ Len(attempts) < Len(Candidates)

\* the k-th attempted candidate is a high-confidence match of the filename
\* extracted from the query
HighMatchAt(k) ==
    /\ variant = "utils"
    /\ Truthy(potential_filename)
    /\ IsHighMatch(lower(Candidates[k].name), lower(potential_filename))

\* ids of the successfully extracted candidates among the first n attempts
RECURSIVE UsableIdsUpTo(_)
UsableIdsUpTo(n) ==
    IF n = 0 THEN <<>>
    ELSE UsableIdsUpTo(n - 1)
         \o (IF IsUsable(ContentOf(Candidates[n])) THEN <<attempts[n]>> ELSE <<>>)

\* the loop stopped at attempt k and put it first
StoppedAndPromoted(k) ==
    /\ k = Len(attempts)
    /\ pc \in {"combine", "done"}
    /\ [i \in 1..Len(source_files) |-> source_files[i].id]
          = <<attempts[k]>> \o UsableIdsUpTo(k - 1)
    /\ context_parts[1] = SectionOf(Candidates[k])
    /\ ReturnedNormally =>
          /\ result.sources = source_files
          /\ OccursAt(result.text, SectionOf(Candidates[k]), 1)

\* C9 as stated: once a candidate with similarity above 0.7 to the requested
\* filename is reached, the loop stops and that candidate comes first
C9_HighMatchStopsLoop ==
    InOrPastLoop =>
        \A k \in 1..Len(attempts) : HighMatchAt(k) => StoppedAndPromoted(k)

\* C9 amended: once a candidate with similarity above 0.7 to the requested
\* filename is reached and its content is accepted (more than 50 characters),
\* the loop stops and that candidate's section and source come first, the
\* earlier entries following in their original order
C9_AcceptedHighMatchStopsLoop ==
    InOrPastLoop =>
        \A k \in 1..Len(attempts) :
            (HighMatchAt(k) /\ IsUsable(ContentOf(Candidates[k])))
                => StoppedAndPromoted(k)

C9_Witness ==
    /\ ReturnedNormally
    /\ Len(attempts) = 3
    /\ HighMatchAt(3)
    /\ Len(result.sources) = 3
    /\ result.sources[1].id = attempts[3]
    /\ result.sources[2].id = attempts[1]

\* C10: for the query "Find my resume.pdf" the filename extraction yields
\* exactly "resume.pdf", to which a file named resume.pdf has similarity 1.0
C10_BareFilenameIsolated ==
    (/\ variant = "utils"
     /\ user_query = <<"F","i","n","d"," ","m","y"," ","r","e","s","u","m","e",".","p","d","f">>
     /\ pc \notin {"idle", "extract_filename"}
     /\ potential_filename # NoneVal)
        => /\ potential_filename = <<"r","e","s","u","m","e",".","p","d","f">>
           /\ IsHighMatch(<<"r","e","s","u","m","e",".","p","d","f">>, lower(potential_filename))


\* ------------------------------------------------------------------------
\* Properties of the text functions
\* ------------------------------------------------------------------------
\* the k-th application was of the function fn
AppliedAt(k, fn) == k <= Len(applied) /\ applied[k] = fn

\* C11: whatever the text and max_length >= 0, truncate_content returns at
\* most max_length + 3 characters (max_length plus the "..." marker), on a
\* fresh text as on one that was cleaned or truncated before
C11_TruncatedLengthBounded ==
    \A k \in 1..Len(applied) :
        AppliedAt(k, "truncate_content")
            => Len(history[k + 1]) <= max_length_arg + 3

C11_Witness ==
    /\ AppliedAt(1, "truncate_content")
    /\ max_length_arg > 0
    /\ Len(history[1]) > max_length_arg
    /\ Len(history[2]) = max_length_arg + 3

\* C12 as stated: truncating a truncated text again with the same
\* max_length leaves it as it is
C12_TruncateIdempotent ==
    (AppliedAt(1, "truncate_content") /\ AppliedAt(2, "truncate_content"))
        => history[3] = history[2]

\* C13: cleaning a cleaned text leaves it as it is, also when the text holds
\* characters clean_text removes between dots or between whitespace
C13_CleanIdempotent ==
    (AppliedAt(1, "clean_text") /\ AppliedAt(2, "clean_text"))
        => history[3] = history[2]

C13_Witness ==
    /\ AppliedAt(1, "clean_text")
    /\ AppliedAt(2, "clean_text")
    /\ Contains(history[1], <<".",".","{",".",".">>)
    /\ Contains(history[1], <<"","{","\t">>)
    /\ history[2] # history[1]
    /\ history[3] = history[2]

\* ------------------------------------------------------------------------
\* Properties of the ranking
\* ------------------------------------------------------------------------
\* the list the last search returned, in the provider's order, is the list
\* the ranking was given
ProviderOrder == last_search.files

\* the candidates have been ranked by the current call
Ranked ==
    \/ pc \in {"loop", "combine", "agent_loop", "agent_combine"}
    \/ ReturnedNormally /\ relevant_files # <<>>

\* file a scores higher than file b under the sort key of the running variant
ScoresHigher(a, b) ==
    IF variant = "agent"
    THEN calculate_relevance(a, user_query) > calculate_relevance(b, user_query)
    ELSE /\ Truthy(potential_filename)
         /\ LET clean_target == StripKnownExtensions(lower(potential_filename))
            IN FracGreater(SimilarityFraction(lower(a.name), clean_target),
                           SimilarityFraction(lower(b.name), clean_target))

PositionIn(files, file_id) == CHOOSE k \in 1..Len(files) : files[k].id = file_id

\* C14: the ranked list is a permutation of the list the provider returned,
\* no file stands before a file of higher score, and two files of equal
\* score stand in the order the provider returned them in
C14_RankingStable ==
    Ranked =>
        /\ Len(relevant_files) = Len(ProviderOrder)
        /\ Range(relevant_files) = Range(ProviderOrder)
        /\ \A i, j \in 1..Len(relevant_files) :
              i < j =>
                  /\ ~ScoresHigher(relevant_files[j], relevant_files[i])
                  /\ ~ScoresHigher(relevant_files[i], relevant_files[j])
                        => PositionIn(ProviderOrder, relevant_files[i].id)
                              < PositionIn(ProviderOrder, relevant_files[j].id)

\* three files or more, two of them of equal score, and a file moved ahead
\* of one the provider returned before it
C14_Witness ==
    /\ Ranked
    /\ Len(relevant_files) >= 3
    /\ relevant_files # ProviderOrder
    /\ \E i, j \in 1..Len(relevant_files) :
          /\ i < j
          /\ ~ScoresHigher(relevant_files[i], relevant_files[j])
          /\ ~ScoresHigher(relevant_files[j], relevant_files[i])

\* ------------------------------------------------------------------------
\* Properties of the extraction
\* ------------------------------------------------------------------------
\* number of candidates among the first n that extract to usable content
UsableAmongFirst(n) == Cardinality({j \in UsablePositions : j <= n})

\* a stop condition of the loop is met once the first n candidates are done:
\* three successful extractions, or (src/utils) a successfully extracted
\* high-confidence match
StopsAfter(n) ==
    \/ UsableAmongFirst(n) >= MaxExtractions
    \/ \E j \in UsablePositions : j <= n /\ HighMatchAt(j)

\* what the provider yields for the media of the k-th candidate
MediaOfCandidate(k) ==
    (CHOOSE f \in Range(provider) : f.id = Candidates[k].id).media

\* the ids of the returned source entries
SourceIds == {result.sources[i].id : i \in 1..Len(result.sources)}

\* C15: get_file_content called for a file whose declared format is not in
\* the registry returns None, requests no media from the provider and does
\* not raise, while a file of a registered format has its media requested;
\* the extraction loop requests media of registered formats only, and a
\* candidate that yields None is followed by the next candidate
C15_UnsupportedFormatGivesNone ==
    /\ pc = "content_done" =>
          /\ ~raised
          /\ requested_file.mimeType \notin Range(supported_mime_types)
                => returned_content = NoneVal /\ downloads = <<>>
          /\ requested_file.mimeType \in Range(supported_mime_types)
                => downloads = <<requested_file.id>>
    /\ \A k \in 1..Len(downloads) :
          \E f \in Range(provider) :
              f.id = downloads[k] /\ f.mimeType \in Range(supported_mime_types)
    /\ ReturnedNormally =>
          \A k \in 1..Len(attempts) :
              (/\ ContentOf(Candidates[k]) = NoneVal
               /\ k < Len(Candidates)
               /\ ~StopsAfter(k))
                  => Len(attempts) > k

C15_Witness ==
    /\ pc = "content_done"
    /\ requested_file.mimeType = "application/octet-stream"
    /\ \E f \in Range(provider) : f.id = requested_file.id /\ ~f.trashed
    /\ returned_content = NoneVal
    /\ downloads = <<>>
    /\ ~raised

\* C16: a candidate whose download or parse fails does not end the loop:
\* the call returns normally, every candidate is attempted until a stop
\* condition is met, and every attempted candidate with usable content is
\* among the sources
C16_FailureDoesNotAbortLoop ==
    ReturnedNormally =>
        /\ \A k \in 1..Len(Candidates) :
              (k = 1 \/ ~StopsAfter(k - 1)) => k <= Len(attempts)
        /\ \A k \in 1..Len(attempts) :
              /\ attempts[k] = Candidates[k].id
              /\ IsUsable(ContentOf(Candidates[k])) => attempts[k] \in SourceIds
              /\ ContentOf(Candidates[k]) = NoneVal => attempts[k] \notin SourceIds

\* a failed download between two successful extractions
C16_Witness ==
    /\ ReturnedNormally
    /\ \E i, j, k \in 1..Len(attempts) :
          /\ i < j /\ j < k
          /\ MediaOfCandidate(j) = Unavailable
          /\ ContentOf(Candidates[j]) = NoneVal
          /\ attempts[i] \in SourceIds
          /\ attempts[k] \in SourceIds

\* the text a format's extractor has in hand before it returns: the decoded
\* download, the tag-stripped HTML, the joined paragraphs, the page texts
\* under their markers, the CSV summary
RawExtractedText(media, mime_type) ==
    CASE mime_type \in {MimeGoogleDoc, MimeText} /\ media.kind = "text" -> media.text
      [] mime_type = MimeMarkdown /\ media.kind = "text" -> strip_tags(media.text)
      [] mime_type = MimeWord /\ media.kind = "word" -> WordTextContent(media.paragraphs)
      [] mime_type = MimePdf /\ media.kind = "pdf" -> PdfTextContent(media.pages, 1)
      [] mime_type = MimeCsv /\ media.kind = "csv" -> CsvSummary(media)
      [] OTHER -> NoneVal

\* the file of the Drive with this id
FileById(file_id) == CHOOSE f \in Range(provider) : f.id = file_id

\* the content is the cleaned raw text of the file
IsCleanedTextOf(text, file_id) ==
    LET f == FileById(file_id)
    IN text = clean_text(RawExtractedText(f.media, f.mimeType))

\* C17 as stated: every text get_file_content returns, to the extraction
\* loop or to a direct caller, is clean_text of the raw text of its format
C17_ContentIsCleaned ==
    /\ \A k \in 1..Len(attempts) :
          ContentById(attempts[k]) # NoneVal
              => IsCleanedTextOf(ContentById(attempts[k]), attempts[k])
    /\ (pc = "content_done" /\ returned_content # NoneVal)
          => IsCleanedTextOf(returned_content, requested_file.id)


\* ------------------------------------------------------------------------
\* the header of the k-th section, rebuilt from the k-th source entry
SectionHeader(k) ==
    HeaderOf([name |-> source_files[k].name, type_name |-> source_files[k].type])

\* characters of the k-th section that come from the file's content
ContentPartLength(k) ==
    Len(context_parts[k]) - Len(SectionHeader(k))
    - (IF variant = "utils" THEN 1 ELSE 0)

\* C18: the combined text is bounded: there are at most 3 sections, and the
\* file-content part of every section has at most 1500 characters plus the
\* ellipsis marker, whatever the size of the extracted files
C18_SectionsBounded ==
    /\ Len(context_parts) <= MaxExtractions
    /\ Len(context_parts) = Len(source_files)
    /\ \A k \in 1..Len(context_parts) :
          ContentPartLength(k) <= MaxSectionLength + 3

\* the part of C18 that holds: the variant that truncates keeps every
\* section's content within the bound, and reaches it
SectionsBoundedWhereTruncated ==
    variant = "utils" => C18_SectionsBounded

LongSectionReached ==
    /\ variant = "utils"
    /\ \E k \in 1..Len(context_parts) :
          ContentPartLength(k) = MaxSectionLength + 3

\* ------------------------------------------------------------------------
\* the step issues one search of the search stage of src/utils/drive_utils.py
IssuesSearch ==
    /\ variant = "utils"
    /\ Len(list_calls') = Len(list_calls) + 1

\* searches for the filename that the call makes when they all return nothing
FilenameSearches ==
    IF ~Truthy(potential_filename) THEN 0
    ELSE IF Len(split(StripKnownExtensions(potential_filename))) > 1 THEN 2
    ELSE 1

\* C19: the searches follow a fixed fallback order: the filename search comes
\* first and only when a filename was extracted, the retry with the filename's
\* words only after the filename search returned nothing, the keyword search
\* with the top 3 keywords only after all filename searches returned nothing,
\* the unfiltered listing only after every earlier search returned nothing;
\* after a search that returned files no further search is issued
C19_FixedFallbackOrder ==
    [][IssuesSearch =>
        /\ relevant_files = <<>>
        /\ list_calls # <<>> => ~last_search.raised /\ last_search.files = <<>>
        /\ pc \in {"filename_search", "words_search", "keyword_search", "all_search"}
        /\ pc = "filename_search" =>
              /\ Truthy(potential_filename)
              /\ list_calls = <<>>
              /\ list_calls'[1].q =
                    BuildPredicate(SearchTermsUtils(
                        StripKnownExtensions(potential_filename)), <<>>)
        /\ pc = "words_search" =>
              /\ FilenameSearches = 2
              /\ Len(list_calls) = 1
        /\ pc = "keyword_search" =>
              /\ keywords # <<>>
              /\ Len(list_calls) = FilenameSearches
              /\ list_calls'[Len(list_calls')].q =
                    BuildPredicate(SearchTermsUtils(join(<<" ">>, Take(keywords, 3))), <<>>)
        /\ pc = "all_search" =>
              /\ Len(list_calls) =
                    FilenameSearches + (IF keywords # <<>> THEN 1 ELSE 0)
              /\ list_calls'[Len(list_calls')].q =
                    BuildPredicate(SearchTermsUtils(NoneVal), <<>>)
    ]_vars

C19_Witness ==
    /\ variant = "utils"
    /\ pc = "rank"
    /\ Len(list_calls) = 4
    /\ FilenameSearches = 2
    /\ relevant_files # <<>>

\* ------------------------------------------------------------------------
\* Properties of _extract_pdf_content
\* ------------------------------------------------------------------------
\* what _extract_pdf_content returned for pdf_pages
ExtractedPdf == history[1]

\* extract_text on the page returns text with a character that is not
\* whitespace
YieldsNonBlankText(page) ==
    /\ ~page.raises
    /\ page.text # NoneVal
    /\ \E i \in 1..Len(page.text) : ~IsSpace(page.text[i])

PdfExtracted == applied = <<"_extract_pdf_content">>

\* the marker of page k as the extracted text holds it
PageMarker(k) == <<"-","-","-"," ","P","a","g","e"," ">> \o str_int(k) \o <<" ","-","-","-">>

\* where the marker of page k occurs in the extracted text
MarkerPositions(k) ==
    IF ExtractedPdf = NoneVal THEN {}
    ELSE {i \in 1..Len(ExtractedPdf) : OccursAt(ExtractedPdf, PageMarker(k), i)}

\* None is returned if and only if no page yields text
NoneIffNoPageHasText ==
    (ExtractedPdf = NoneVal)
        <=> (\A k \in 1..Len(pdf_pages) : ~YieldsNonBlankText(pdf_pages[k]))

\* one marker for each page with text, none for the others, in page order
OneMarkerPerTextPage ==
    /\ \A k \in 1..Len(pdf_pages) :
          Cardinality(MarkerPositions(k)) =
              IF YieldsNonBlankText(pdf_pages[k]) THEN 1 ELSE 0
    /\ \A j, k \in 1..Len(pdf_pages) :
          (j < k /\ YieldsNonBlankText(pdf_pages[j]) /\ YieldsNonBlankText(pdf_pages[k]))
              => \A a \in MarkerPositions(j), b \in MarkerPositions(k) : a < b

\* the text of page k as clean_text leaves it
CleanedPageText(k) == clean_text(pdf_pages[k].text)

\* from page k on, for each page that yields non-blank text, the marker of
\* the page and then the cleaned text of the page when that is not empty
RECURSIVE MarkedPagesFrom(_)
MarkedPagesFrom(k) ==
    IF k > Len(pdf_pages) THEN <<>>
    ELSE (IF YieldsNonBlankText(pdf_pages[k])
          THEN <<PageMarker(k)>>
               \o (IF CleanedPageText(k) = <<>> THEN <<>> ELSE <<CleanedPageText(k)>>)
          ELSE <<>>)
         \o MarkedPagesFrom(k + 1)

\* the extracted text is the markers of the pages with text, each followed
\* by the cleaned text of its page, joined by single spaces
MarkersThenCleanedTexts ==
    ExtractedPdf # NoneVal => ExtractedPdf = join(<<" ">>, MarkedPagesFrom(1))

\* the cleaned text of page j reads 'Page k' between '--- ', or its own
\* start (where the marker of page j ends), and ' ---', or its own end when
\* a later page yields text (where the marker of that page begins)
ReadsAsMarker(j, k) ==
    LET t == CleanedPageText(j)
        w == <<"P","a","g","e"," ">> \o str_int(k)
        later == \E m \in (j + 1)..Len(pdf_pages) : YieldsNonBlankText(pdf_pages[m])
    IN \E i \in 1..Len(t) :
          /\ OccursAt(t, w, i)
          /\ i = 1 \/ OccursAt(t, <<"-","-","-"," ">>, i - 4)
          /\ (i + Len(w) - 1 = Len(t) /\ later) \/ OccursAt(t, <<" ","-","-","-">>, i + Len(w))

\* no page's own text reads as the marker of a page of the PDF
NoPageReadsAsMarker ==
    \A j, k \in 1..Len(pdf_pages) :
        YieldsNonBlankText(pdf_pages[j]) => ~ReadsAsMarker(j, k)

\* C20 as stated: the extracted text holds exactly one marker
\* '--- Page k ---' for each page k that yields non-blank text, in page
\* order, and none for pages that yield no text or whose extraction raises;
\* None is returned if and only if no page yields text
C20_ExactlyOneMarkerPerTextPage ==
    PdfExtracted => (NoneIffNoPageHasText /\ OneMarkerPerTextPage)

\* C20 amended: None is returned if and only if no page yields non-blank
\* text; otherwise the extracted text is, for the pages that yield
\* non-blank text in page order, the marker '--- Page k ---' of the page
\* followed by the cleaned text of the page, joined by single spaces; it
\* holds exactly one marker for each page that yields non-blank text, in
\* page order, and none for the other pages, if and only if no page's
\* cleaned text itself reads as the marker of a page of the PDF
C20_MarkersOfTextPages ==
    PdfExtracted =>
        /\ NoneIffNoPageHasText
        /\ MarkersThenCleanedTexts
        /\ OneMarkerPerTextPage <=> NoPageReadsAsMarker

C20_Witness ==
    /\ PdfExtracted
    /\ Len(pdf_pages) = 3
    /\ YieldsNonBlankText(pdf_pages[1])
    /\ Contains(pdf_pages[1].text, <<"P","a","g","e">>)
    /\ pdf_pages[2].raises
    /\ YieldsNonBlankText(pdf_pages[3])
    /\ CleanedPageText(3) # pdf_pages[3].text
    /\ NoPageReadsAsMarker
    /\ Cardinality(MarkerPositions(1)) = 1
    /\ MarkerPositions(2) = {}
    /\ Cardinality(MarkerPositions(3)) = 1

\* ------------------------------------------------------------------------
\* Properties of search_files
\* ------------------------------------------------------------------------
\* search_files has built its predicate
SearchDone == sent_query # NoneVal

\* the conjuncts of the predicate sent
Conjuncts == split_on(sent_query, <<" ","a","n","d"," ">>)

\* the formats the call is to be restricted to
ExpectedTypes ==
    IF search_args.file_types \in {NoneVal, <<>>}
    THEN supported_mime_types ELSE search_args.file_types

\* positions of s where needle occurs
Occurrences(s, needle) == {i \in 1..Len(s) : OccursAt(s, needle, i)}

\* C21: every predicate search_files sends is a conjunction that holds a
\* disjunction of mimeType clauses (all six supported formats when file_types
\* is absent or empty) and the condition trashed=false, whatever the query:
\* absent, empty or without a usable term
C21_PredicateHasTypesAndNotTrashed ==
    SearchDone =>
        LET n == Len(Conjuncts)
        IN /\ n \in {2, 3}
           /\ Conjuncts[n] = <<"t","r","a","s","h","e","d","=","f","a","l","s","e">>
           /\ Conjuncts[n - 1] = TypeClause(ExpectedTypes)
           /\ Cardinality(Occurrences(sent_query, <<"m","i","m","e","T","y","p","e","=","'">>)) = Len(ExpectedTypes)
           /\ search_args.file_types \in {NoneVal, <<>>}
                 => \A k \in 1..Len(supported_mime_types) :
                       Contains(Conjuncts[n - 1],
                                <<"m","i","m","e","T","y","p","e","=","'">> \o mime_chars(supported_mime_types[k]) \o <<"'">>)

C21_Witness ==
    /\ SearchDone
    /\ search_args.query = <<"c","v">>
    /\ search_args.file_types = <<>>
    /\ Len(Conjuncts) = 2
    /\ Cardinality(Occurrences(sent_query, <<"m","i","m","e","T","y","p","e","=","'">>)) = 6

\* the terms put into name contains '...' clauses
NameTerms == SearchTerms(variant, search_args.query)

\* C30: every term interpolated into a name contains '...' clause is longer
\* than 2 characters and holds no single quote and no backslash, so the
\* predicate has one name clause per term and no quote but those that
\* delimit the terms and the formats; a query without such a term gives a
\* predicate without name clause
C30_TermsCannotCloseLiteral ==
    SearchDone =>
        /\ \A k \in 1..Len(NameTerms) :
              /\ Len(NameTerms[k]) > 2
              /\ "'" \notin Range(NameTerms[k])
              /\ "\\" \notin Range(NameTerms[k])
        /\ Cardinality(Occurrences(sent_query, <<"n","a","m","e"," ","c","o","n","t","a","i","n","s"," ","'">>)) = Len(NameTerms)
        /\ Cardinality(Occurrences(sent_query, <<"'">>))
              = 2 * Len(NameTerms) + 2 * Len(ExpectedTypes)
        /\ ~Contains(sent_query, <<"\\">>)
        /\ NameTerms = <<>> => ~Contains(sent_query, <<"n","a","m","e"," ","c","o","n","t","a","i","n","s">>)
        /\ Len(Conjuncts) = (IF NameTerms = <<>> THEN 2 ELSE 3)

C30_Witness ==
    /\ SearchDone
    /\ variant = "utils"
    /\ Contains(search_args.query, <<"'"," ","o","r"," ","n","a","m","e"," ","c","o","n","t","a","i","n","s"," ","'">>)
    /\ Contains(search_args.query, <<"\\">>)
    /\ Len(NameTerms) = 2

\* ------------------------------------------------------------------------
\* Properties of the relevance ranker of src/agent/drive_utils.py
\* ------------------------------------------------------------------------
\* the word tokens of a text, lower-cased
WordTokens(s) == Range(findall_words(lower(s)))

\* the letters and digits of a text, lower-cased
AlnumOnly(s) == SelectSeqP(lower(s), LAMBDA c : c \in LowerLetters \cup Digits)

SharedTokens(name, query) == Cardinality(WordTokens(name) \cap WordTokens(query))

PdfBonus(name, query) ==
    IF Contains(lower(query), <<"p","d","f">>) /\ endswith(lower(name), <<".","p","d","f">>)
    THEN 2 ELSE 0

NearExactBonus(name, query) ==
    IF \/ Contains(AlnumOnly(name), AlnumOnly(query))
       \/ Contains(AlnumOnly(query), AlnumOnly(name))
    THEN 5 ELSE 0

\* the score of a file for the query of the current call
RelevanceScore(file_info) ==
    SharedTokens(file_info.name, user_query)
    + PdfBonus(file_info.name, user_query)
    + NearExactBonus(file_info.name, user_query)

\* C24: the ranker of src/agent/drive_utils.py orders the candidates by
\* non-increasing score, the score being the number of word tokens the
\* lower-cased filename shares with the lower-cased query, plus 2 when the
\* query contains 'pdf' and the filename ends in '.pdf', plus 5 when the
\* alnum-stripped query is a substring of the alnum-stripped filename or the
\* reverse; the extraction visits the candidates in that order
C24_RankedByRelevanceScore ==
    (variant = "agent" /\ Ranked) =>
        /\ \A i, j \in 1..Len(relevant_files) :
              i < j => RelevanceScore(relevant_files[i]) >= RelevanceScore(relevant_files[j])
        /\ Len(attempts) <= Len(relevant_files)
        /\ \A k \in 1..Len(attempts) : attempts[k] = relevant_files[k].id

\* a file with both bonuses first, a file with the near-exact bonus alone
\* ahead of a file the provider returned before it, and both visited
C24_Witness ==
    /\ variant = "agent"
    /\ Ranked
    /\ Len(relevant_files) >= 3
    /\ Len(attempts) >= 2
    /\ PdfBonus(relevant_files[1].name, user_query) = 2
    /\ NearExactBonus(relevant_files[1].name, user_query) = 5
    /\ \E i, j \in 1..Len(relevant_files) :
          /\ i < j
          /\ PdfBonus(relevant_files[i].name, user_query) = 0
          /\ NearExactBonus(relevant_files[i].name, user_query) = 5
          /\ NearExactBonus(relevant_files[j].name, user_query) = 0
          /\ SharedTokens(relevant_files[i].name, user_query)
                = SharedTokens(relevant_files[j].name, user_query)
          /\ PositionIn(ProviderOrder, relevant_files[j].id)
                < PositionIn(ProviderOrder, relevant_files[i].id)

\* ------------------------------------------------------------------------
\* Properties of clean_text and extract_keywords
\* ------------------------------------------------------------------------
\* the text holds two non-empty paragraphs with a blank line between them
HasParagraphBreak(text) ==
    \E i \in 1..Len(text) :
        /\ OccursAt(text, <<"\n","\n">>, i)
        /\ \E a \in 1..(i - 1) : ~IsSpace(text[a])
        /\ \E b \in (i + 2)..Len(text) : ~IsSpace(text[b])

\* C25 as stated: clean_text collapses runs of spaces and tabs to single
\* spaces and keeps the paragraph breaks: when two non-empty paragraphs of
\* the input are separated by a blank line, the output separates them by a
\* double newline
C25_ParagraphBreaksKept ==
    AppliedAt(1, "clean_text") =>
        /\ ~Contains(history[2], <<" "," ">>)
        /\ ~Contains(history[2], <<"\t">>)
        /\ HasParagraphBreak(history[1]) => Contains(history[2], <<"\n","\n">>)

\* the call of extract_keywords has returned
KeywordsDone == keyword_args # <<>>

KeywordText == keyword_args[1].text

\* the tokens of the text, lower-cased: its runs of letters, digits and
\* underscores
TextTokens == IF KeywordText = NoneVal THEN <<>> ELSE findall_words(lower(KeywordText))

\* how often the word occurs among the tokens
Frequency(w) == Cardinality({i \in 1..Len(TextTokens) : TextTokens[i] = w})

\* the word stands capitalized in the source: a capital, then small letters
CapitalizedInSource(w) ==
    /\ KeywordText # NoneVal
    /\ \E i \in 1..Len(findall_words(KeywordText)) :
          LET t == findall_words(KeywordText)[i]
          IN /\ lower(t) = w
             /\ t[1] \in UpperLetters
             /\ Len(t) >= 2
             /\ \A j \in 2..Len(t) : t[j] \in LowerLetters

\* promoted as the claim words it
PromotedAsStated(w) ==
    \/ w \in professional_keywords
    \/ CapitalizedInSource(w)
    \/ Len(w) > 6

\* promoted, the words that begin or end with "cv" included
Promoted(w) ==
    \/ PromotedAsStated(w)
    \/ (Len(w) >= 2 /\ SubSeq(w, 1, 2) = <<"c","v">>)
    \/ (Len(w) >= 2 /\ SubSeq(w, Len(w) - 1, Len(w)) = <<"c","v">>)

\* at most max_keywords distinct lower-case tokens of the text, none of
\* them a stop word
KeywordsWellFormed ==
    /\ Len(keyword_list) <= keyword_args[1].max_keywords
    /\ \A i, j \in 1..Len(keyword_list) : i # j => keyword_list[i] # keyword_list[j]
    /\ \A i \in 1..Len(keyword_list) :
          /\ keyword_list[i] = lower(keyword_list[i])
          /\ Frequency(keyword_list[i]) > 0
          /\ keyword_list[i] \notin stop_words

\* C26 as stated: extract_keywords returns at most max_keywords distinct
\* lower-case tokens of the text that are no stop words; every word that is
\* in the professional vocabulary, capitalized in the source or longer than
\* 6 characters precedes every other word, and inside each group the more
\* frequent word comes first.
C26_PromotedFirstAsStated ==
    KeywordsDone =>
        /\ KeywordsWellFormed
        /\ \A i, j \in 1..Len(keyword_list) :
              i < j =>
                  /\ ~(PromotedAsStated(keyword_list[j]) /\ ~PromotedAsStated(keyword_list[i]))
                  /\ PromotedAsStated(keyword_list[i]) = PromotedAsStated(keyword_list[j])
                        => Frequency(keyword_list[i]) >= Frequency(keyword_list[j])

\* C26 amended: the same, where the promoted words are those of the
\* professional vocabulary, those capitalized in the source, those longer
\* than 6 characters and those that begin or end with "cv".
C26_PromotedFirst ==
    KeywordsDone =>
        /\ KeywordsWellFormed
        /\ \A i, j \in 1..Len(keyword_list) :
              i < j =>
                  /\ ~(Promoted(keyword_list[j]) /\ ~Promoted(keyword_list[i]))
                  /\ Promoted(keyword_list[i]) = Promoted(keyword_list[j])
                        => Frequency(keyword_list[i]) >= Frequency(keyword_list[j])

\* a less frequent word promoted only for its "cv" prefix stands before a
\* more frequent plain word
C26_Witness ==
    /\ KeywordsDone
    /\ Len(keyword_list) = 2
    /\ Promoted(keyword_list[1])
    /\ ~PromotedAsStated(keyword_list[1])
    /\ ~Promoted(keyword_list[2])
    /\ Frequency(keyword_list[1]) < Frequency(keyword_list[2])

\* ------------------------------------------------------------------------
\* Sections and sources of get_relevant_context
\* ------------------------------------------------------------------------
\* how a section opens when it is the section of a file of that name
SectionOpening(name) ==
    IF variant = "agent"
    THEN <<"\n">> \o [i \in 1..60 |-> "="] \o <<"\n","F","i","l","e",":"," ">> \o name \o <<"\n","T","y","p","e",":"," ">>
    ELSE <<"-","-","-"," ","C","o","n","t","e","n","t"," ","f","r","o","m"," ","f","i","l","e",":"," ">> \o name \o <<" ","(">>

\* the k-th source names the file of the k-th section: the section opens
\* with the header of a file of that name, and the Drive holds a file of
\* that id and name
SourceNamesSection(k) ==
    /\ OccursAt(context_parts[k], SectionOpening(source_files[k].name), 1)
    /\ \E i \in 1..Len(provider) :
          /\ provider[i].id = source_files[k].id
          /\ provider[i].name = source_files[k].name

\* C28: during the extraction loop and at the return there are as many
\* sources as context sections and the i-th source names the file of the
\* i-th section, also after the reorder of a high-confidence match; the
\* returned text is empty exactly when the returned sources are.
C28_SourcesMatchSections ==
    /\ Len(context_parts) = Len(source_files)
    /\ \A k \in 1..Len(source_files) : SourceNamesSection(k)
    /\ pc = "done" =>
          /\ (result.text = <<>>) <=> (result.sources = <<>>)
          /\ result.sources # <<>> => result.sources = source_files

\* a call has returned two or more sections after the high-confidence
\* match, extracted last, was moved to the front
C28_Witness ==
    /\ pc = "done"
    /\ variant = "utils"
    /\ Len(result.sources) >= 2
    /\ result.sources[1].id = attempts[Len(attempts)]
    /\ result.text # <<>>

\* ------------------------------------------------------------------------
\* Properties of process_query
\* ------------------------------------------------------------------------
\* the first list is the end of the second
EndsWith(xs, ys) ==
    /\ Len(xs) <= Len(ys)
    /\ \A i \in 1..Len(xs) : xs[i] = ys[Len(ys) - Len(xs) + i]

\* a call of process_query has been made
Called == call_count > 0

\* the retrieval of the latest call failed: it raised, or it reported its
\* failure as the empty pair
RetrievalFailed ==
    /\ retrieved # <<>>
    /\ (retrieved[1].raised \/ retrieved[1].text = <<>>)

\* the completion request of the latest call raised
LlmFailed == llm_calls # <<>> /\ llm_calls[1].raised

\* the request of the latest call carries no Drive content and asks the
\* user's question
RequestWithoutContext ==
    /\ llm_calls # <<>>
    /\ llm_calls[1].context = NoneVal
    /\ Len(llm_calls[1].messages) >= 2
    /\ llm_calls[1].messages[1].role = "system"
    /\ ~Contains(llm_calls[1].messages[1].content, <<"C","O","N","T","E","N","T"," ","F","R","O","M"," ","U","S","E","R","'","S"," ","G","O","O","G","L","E"," ","D","R","I","V","E"," ","F","I","L","E","S">>)
    /\ llm_calls[1].messages[Len(llm_calls[1].messages)] =
          [role |-> "user", content |-> llm_calls[1].user_input]

\* C22: process_query never raises to its caller; after a failed retrieval
\* it still sends the LLM request, without context, and returns a normal
\* record with empty sources; after a failed LLM call it returns a record
\* with an 'error' field, context_used false and empty sources.
C22_FailuresAreAbsorbed ==
    Called =>
        /\ ~propagated
        /\ Len(final_response) = 1
        /\ RetrievalFailed =>
              /\ RequestWithoutContext
              /\ ~LlmFailed =>
                    /\ "error" \notin DOMAIN final_response[1]
                    /\ final_response[1].sources = <<>>
                    /\ final_response[1].response = <<"a","n","s","w","e","r"," ">> \o str_int(Len(appended) \div 2)
        /\ LlmFailed =>
              /\ "error" \in DOMAIN final_response[1]
              /\ final_response[1].context_used = FALSE
              /\ final_response[1].sources = <<>>

\* the retrieval raised, the request went out all the same, and the LLM
\* call failed too
C22_Witness ==
    /\ Called
    /\ retrieved # <<>>
    /\ retrieved[1].raised
    /\ RequestWithoutContext
    /\ LlmFailed
    /\ Len(final_response) = 1
    /\ "error" \in DOMAIN final_response[1]

\* the history part of the latest request: its messages without the system
\* prompt and the current question
RequestHistory ==
    SubSeq(llm_calls[1].messages, 2, Len(llm_calls[1].messages) - 1)

\* the history holds at most 20 messages, the most recent of those ever
\* appended, in their order; at most 10 were passed on and at most the last
\* 6 of these are in the request
HistoryIsRecent ==
    /\ Len(conversation_history) <= 20
    /\ EndsWith(conversation_history, appended)
    /\ Len(appended) <= 20 => conversation_history = appended
    /\ Len(appended) > 20 => Len(conversation_history) = 20
    /\ llm_calls # <<>> =>
          /\ Len(llm_calls[1].conversation_history) <= 10
          /\ Len(RequestHistory) <= 6
          /\ EndsWith(RequestHistory, llm_calls[1].conversation_history)

\* what a call passes to the LLM client is the end of the history it found
PassesRecent ==
    (call_count' # call_count /\ llm_calls' # <<>>) =>
        EndsWith(llm_calls'[1].conversation_history, conversation_history)

\* C23: after any sequence of process_query calls conversation_history holds
\* at most 20 messages, the most recent ones in chronological order; at most
\* the last 10 of them are passed to the LLM client and at most the last 6
\* of those are put in a request.
C23_HistoryWindows == [](HistoryIsRecent) /\ [][PassesRecent]_vars

\* more than 20 messages were appended, 20 are kept, and the latest call
\* passed 10 of them on, 6 of which went into the request
C23_Witness ==
    /\ Len(appended) > 20
    /\ Len(conversation_history) = 20
    /\ llm_calls # <<>>
    /\ Len(llm_calls[1].conversation_history) = 10
    /\ Len(RequestHistory) = 6

\* even length, a user message at every odd place and an assistant message
\* at every even place
Alternating ==
    /\ Len(conversation_history) % 2 = 0
    /\ \A i \in 1..Len(conversation_history) :
          conversation_history[i].role = IF i % 2 = 1 THEN "user" ELSE "assistant"

\* a call whose LLM request failed leaves the history as it was; a call that
\* was answered puts the question and then the answer at its end
HistoryStep ==
    call_count' # call_count =>
        /\ (llm_calls' # <<>> /\ llm_calls'[1].raised) =>
              conversation_history' = conversation_history
        /\ (llm_calls' # <<>> /\ ~llm_calls'[1].raised) =>
              LET n == Len(conversation_history')
              IN /\ n >= 2
                 /\ conversation_history'[n - 1] =
                       [role |-> "user", content |-> llm_calls'[1].user_input]
                 /\ conversation_history'[n] =
                       [role |-> "assistant", content |-> final_response'[1].response]
                 /\ EndsWith(SubSeq(conversation_history', 1, n - 2), conversation_history)
                 /\ Len(appended') = Len(appended) + 2

\* C29: a failed LLM call leaves conversation_history unchanged; a
\* successful one appends exactly one user message followed by one
\* assistant message; the history always has even length with alternating
\* user and assistant roles.
C29_HistoryGrowsByExchanges == [](Alternating) /\ [][HistoryStep]_vars

\* the LLM call failed while the history was full
C29_Witness ==
    /\ LlmFailed
    /\ Len(conversation_history) = 20
    /\ Len(appended) > 20

\* ------------------------------------------------------------------------
\* Termination of get_relevant_context
\* ------------------------------------------------------------------------
\* a call of get_relevant_context is under way
Running == pc \notin {"idle", "done", "content_done"}

\* the call has returned a pair of a text and a list of sources
ReturnedPair == pc = "done" /\ result.text # NoneVal

\* no candidate is given to get_file_content twice
NoRetry ==
    \A i, j \in 1..Len(attempts) : i # j => attempts[i] # attempts[j]

\* C27: every call of get_relevant_context terminates and returns a pair
\* (text, sources), given that every listing call returns or raises and
\* every chunked download reports done or raises in the end; the extraction
\* loop gives each candidate to get_file_content at most once.
C27_CallTerminates ==
    /\ [](NoRetry)
    /\ [](pc = "done" => ReturnedPair)
    /\ (Running ~> ReturnedPair)

\* a call has returned sections after two downloads that took their chunks
C27_Witness ==
    /\ ReturnedPair
    /\ ~raised
    /\ Len(downloads) >= 2
    /\ Len(attempts) >= 2
    /\ result.sources # <<>>
====
